---------------------------- MODULE Spec2Model ----------------------------
(***************************************************************************)
(* State-machine model of the squirrel meta-information index             *)
(* (src/src/squirrel/base.py), its ingest pipeline                        *)
(* (src/src/squirrel/io/base.py) and its data model                       *)
(* (src/src/squirrel/model.py).                                           *)
(*                                                                         *)
(* The SQL tables are TLA+ sets / functions of rows, the triggers are     *)
(* operators applied by every statement that fires them, and every public *)
(* method is one action that applies the whole method to the tables.      *)
(* Times are counted in ticks of 1/TRes second, so that                   *)
(* tsplit/tjoin are exact.                                                 *)
(***************************************************************************)
EXTENDS Integers, Sequences, FiniteSets, TLC

(* ------------------------------ bounds -------------------------------- *)

NPaths == 2           \* paths known to the scenario: 1..NPaths
MaxMtime == 2         \* a file is modified on disk at most until this mtime
NShared == 1          \* paths 1..NShared are shared by the Squirrels of SpecShared
MaxFileId == 2        \* rowids handed out by the files table
MaxNutId == 3         \* rowids handed out by the global nuts table
TRes == 2             \* ticks per second (offsets are 0 .. TRes-1 ticks)
MaxT == 1             \* nuts of SpecSpan begin at seconds -MaxT .. MaxT
MaxSpanNuts == 2      \* nuts in the projection of SpecSpan

(* SQL NULL / Python None in an integer column *)
NULL == 0 - 1000000000

Paths == 1..NPaths
Squirrels == {1, 2}
Selections == Squirrels

Max(S) == CHOOSE x \in S : \A y \in S : y <= x
Min(S) == CHOOSE x \in S : \A y \in S : x <= y
NextRowid(ids) == IF ids = {} THEN 1 ELSE Max(ids) + 1
Range(f) == {f[x] : x \in DOMAIN f}
RECURSIVE SetToSeq(_)
SetToSeq(S) == IF S = {} THEN <<>>
               ELSE LET m == Min(S) IN <<m>> \o SetToSeq(S \ {m})

(* ---------------------------- model.py -------------------------------- *)

\* tsplit(t): seconds = floor(t), offset = t - seconds  (t in ticks)
tsplit(t) == IF t = NULL THEN <<NULL, 0>> ELSE <<t \div TRes, t % TRes>>

\* tjoin(seconds, offset, deltat): seconds + offset (exact in ticks)
tjoin(seconds, offset, deltat) ==
    IF seconds = NULL THEN NULL ELSE seconds * TRes + offset

tscale_min == 1
tscale_max == 365 * 24 * 3600
tscale_logbase == 20

\* the loop that appends edge * tscale_logbase until an edge >= tscale_max
RECURSIVE MakeEdges(_)
MakeEdges(edges) ==
    IF edges[Len(edges)] >= tscale_max THEN edges
    ELSE MakeEdges(Append(edges, edges[Len(edges)] * tscale_logbase))

tscale_edges == MakeEdges(<<tscale_min, tscale_min * tscale_logbase>>)

\* numpy.searchsorted(tscale_edges, tscale, side='right'): the number of
\* edges not above tscale
SearchRight(tscale) ==
    Cardinality({i \in 1..Len(tscale_edges) : tscale_edges[i] <= tscale})

\* numpy.searchsorted(tscale_edges, tscale), side='left':
\* the number of edges strictly below tscale
tscale_to_kscale(tscale) ==
    Cardinality({i \in 1..Len(tscale_edges) : tscale_edges[i] < tscale})

\* Nut.kscale
Nut_kscale(nut) ==
    IF nut.tmin_seconds = NULL \/ nut.tmax_seconds = NULL THEN 0
    ELSE tscale_to_kscale(nut.tmax_seconds - nut.tmin_seconds)

\* Nut.tmin / Nut.tmax
Nut_tmin(nut) == tjoin(nut.tmin_seconds, nut.tmin_offset, nut.deltat)
Nut_tmax(nut) == tjoin(nut.tmax_seconds, nut.tmax_offset, nut.deltat)

\* a nut compared with all its attributes, those of the file included
AllValues(nut) == nut

\* Nut.equality_values
equality_values(nut) ==
    <<nut.file_segment, nut.file_element, nut.kind, nut.codes,
      nut.tmin_seconds, nut.tmin_offset, nut.tmax_seconds, nut.tmax_offset,
      nut.deltat>>


(* ------------------- base.py: the tables of the store ------------------ *)
(* A store D is a record of tables:                                        *)
(*   files            file_id -> [path, format, mtime, size]               *)
(*   nuts             set of rows of the global nuts table                 *)
(*   kind_codes       sequence of <<kind, codes>>; kind_codes_id = index   *)
(*   kind_codes_count kind_codes_id -> count                               *)
(*   file_states      selection -> (file_id -> file_state)                 *)
(*   sq_nuts          squirrel -> set of rows of its own nuts table        *)
(*   sq_count         squirrel -> (kind_codes_id -> count)                 *)

EmptyFn == [x \in {} |-> 0]

\* Database._initialize_db (tables) and Selection.__init__ /
\* Squirrel.__init__ (tables) right after construction
EmptyStore ==
    [files |-> EmptyFn, nuts |-> {}, kind_codes |-> <<>>,
     kind_codes_count |-> EmptyFn,
     file_states |-> [s \in Selections |-> EmptyFn],
     sq_nuts |-> [s \in Squirrels |-> {}],
     sq_count |-> [s \in Squirrels |-> EmptyFn]]

\* SELECT file_id FROM files WHERE path == ?   (NULL when there is no row)
FileIdOf(D, path) ==
    IF \E f \in DOMAIN D.files : D.files[f].path = path
    THEN CHOOSE f \in DOMAIN D.files : D.files[f].path = path
    ELSE NULL

\* SELECT kind_codes_id FROM kind_codes WHERE kind == ? AND codes == ?
KindCodesIdOf(D, kind, codes) ==
    IF \E i \in 1..Len(D.kind_codes) : D.kind_codes[i] = <<kind, codes>>
    THEN CHOOSE i \in 1..Len(D.kind_codes) : D.kind_codes[i] = <<kind, codes>>
    ELSE NULL

\* the counts left as they are when rows are deleted (no decrement trigger)
KeepCounts(count, deleted) == count

\* trigger decrement_kind_codes / <nuts>_dec_kind_codes, once per deleted row:
\* UPDATE count = count - 1 WHERE old.kind_codes_id == kind_codes_id
DecrementCounts(count, deleted) ==
    [k \in DOMAIN count |->
        count[k] - Cardinality({n \in deleted : n.kind_codes_id = k})]

\* trigger increment_kind_codes / <nuts>_inc_kind_codes for one inserted row:
\* INSERT OR IGNORE (id, 0); UPDATE count = count + 1
IncrementCount(count, k) ==
    IF k \in DOMAIN count THEN [count EXCEPT ![k] = @ + 1]
    ELSE count @@ (k :> 1)

\* DELETE FROM nuts WHERE file_id == old.file_id  (global table)
DeleteGlobalNuts(D, fid) ==
    LET gone == {n \in D.nuts : n.file_id = fid}
    IN [D EXCEPT !.nuts = @ \ gone,
                 !.kind_codes_count = DecrementCounts(@, gone)]

\* a Squirrel without the triggers <nuts>_delete_nuts, <nuts>_delete_nuts2
ProjectionKept(D, s, fid) == D

\* DELETE FROM <sel>_nuts WHERE file_id == old.file_id  (one squirrel)
DeleteSquirrelNuts(D, s, fid) ==
    LET gone == {n \in D.sq_nuts[s] : n.file_id = fid}
    IN [D EXCEPT !.sq_nuts[s] = @ \ gone,
                 !.sq_count[s] = DecrementCounts(@, gone)]

RECURSIVE DeleteAllSquirrelNuts(_, _, _)
DeleteAllSquirrelNuts(D, sqs, fid) ==
    IF sqs = {} THEN D
    ELSE DeleteAllSquirrelNuts(DeleteSquirrelNuts(D, Min(sqs), fid),
                               sqs \ {Min(sqs)}, fid)

\* the triggers of the global tables alone
GlobalTriggersOnly(D, fid) == DeleteGlobalNuts(D, fid)

\* The BEFORE DELETE / BEFORE UPDATE triggers on main.files, for one row:
\* delete_nuts_on_delete_file, delete_nuts_on_update_file and every
\* squirrel's <nuts>_delete_nuts, <nuts>_delete_nuts2
FilesRowTriggers(D, fid) ==
    DeleteAllSquirrelNuts(DeleteGlobalNuts(D, fid), Squirrels, fid)

\* the files table without the row fid
DeleteFileRow(T, fid) ==
    [T EXCEPT !.files = [f \in DOMAIN @ \ {fid} |-> @[f]]]

\* Database.remove(path): DELETE FROM files WHERE path = ?
Database_remove(D, path) ==
    IF FileIdOf(D, path) = NULL THEN D
    ELSE DeleteFileRow(FilesRowTriggers(D, FileIdOf(D, path)),
                       FileIdOf(D, path))

\* the files table with the row fid replaced
SetFileRow(T, fid, path, format, mtime, size) ==
    [T EXCEPT !.files[fid] =
        [path |-> path, format |-> format, mtime |-> mtime, size |-> size]]

\* UPDATE files without the trigger that deletes the nuts of the file
UpdateRowOnly(D, path, format, mtime, size) ==
    IF FileIdOf(D, path) = NULL THEN D
    ELSE SetFileRow(D, FileIdOf(D, path), path, format, mtime, size)

\* UPDATE files SET format = ?, mtime = ?, size = ? WHERE path == ?
UpdateFile(D, path, format, mtime, size) ==
    IF FileIdOf(D, path) = NULL THEN D
    ELSE SetFileRow(FilesRowTriggers(D, FileIdOf(D, path)),
                    FileIdOf(D, path), path, format, mtime, size)

\* the file row deleted where Database.reset keeps it
ForgetFile(D, path) == Database_remove(D, path)

\* the file row left as it is
KeepFile(D, path) == D

\* Database.reset(path)
Database_reset(D, path) == UpdateFile(D, path, "NULL", NULL, NULL)

\* INSERT OR REPLACE: the row of a known path is written anew
InsertOrReplaceFile(D, path, format, mtime, size) ==
    IF FileIdOf(D, path) # NULL THEN UpdateFile(D, path, format, mtime, size)
    ELSE [D EXCEPT !.files = @ @@
            (NextRowid(DOMAIN D.files) :>
                [path |-> path, format |-> format,
                 mtime |-> mtime, size |-> size])]

\* INSERT OR IGNORE INTO files VALUES (NULL, path, format, mtime, size)
InsertOrIgnoreFile(D, path, format, mtime, size) ==
    IF FileIdOf(D, path) # NULL THEN D
    ELSE [D EXCEPT !.files = @ @@
            (NextRowid(DOMAIN D.files) :>
                [path |-> path, format |-> format,
                 mtime |-> mtime, size |-> size])]

\* INSERT OR IGNORE INTO kind_codes VALUES (NULL, kind, codes)
InsertOrIgnoreKindCodes(D, kc) ==
    IF KindCodesIdOf(D, kc[1], kc[2]) # NULL THEN D
    ELSE [D EXCEPT !.kind_codes = Append(@, kc)]

(* ------------------------- base.py: Database.dig ----------------------- *)
(* A Nut object is a record [file_path, file_format, file_mtime,           *)
(* file_size, file_segment, file_element, kind, codes, tmin_seconds,       *)
(* tmin_offset, tmax_seconds, tmax_offset, deltat].                        *)

\* the Python set `files` of dig: (path, format, mtime, size) per nut
DigFileSet(nuts) ==
    {<<nuts[i].file_path, nuts[i].file_format, nuts[i].file_mtime,
       nuts[i].file_size>> : i \in 1..Len(nuts)}

\* the Python set `kind_codes` of dig
DigKindCodesSet(nuts) == {<<nuts[i].kind, nuts[i].codes>> : i \in 1..Len(nuts)}

\* The orders in which Python may iterate a set: all its enumerations
Enumerations(S) ==
    {q \in [1..Cardinality(S) -> S] : \A i, j \in DOMAIN q : i # j => q[i] # q[j]}

RECURSIVE InsertOrIgnoreFiles(_, _)
InsertOrIgnoreFiles(D, forder) ==
    IF forder = <<>> THEN D
    ELSE InsertOrIgnoreFiles(
            InsertOrIgnoreFile(D, Head(forder)[1], Head(forder)[2],
                               Head(forder)[3], Head(forder)[4]),
            Tail(forder))

RECURSIVE UpdateFiles(_, _)
UpdateFiles(D, forder) ==
    IF forder = <<>> THEN D
    ELSE UpdateFiles(
            UpdateFile(D, Head(forder)[1], Head(forder)[2],
                       Head(forder)[3], Head(forder)[4]),
            Tail(forder))

RECURSIVE InsertOrIgnoreKinds(_, _)
InsertOrIgnoreKinds(D, korder) ==
    IF korder = <<>> THEN D
    ELSE InsertOrIgnoreKinds(
            InsertOrIgnoreKindCodes(D, Head(korder)), Tail(korder))

\* the row INSERT INTO nuts VALUES (NULL, (SELECT file_id ..), ?, ?,
\* (SELECT kind_codes_id ..), ?, ?, ?, ?, ?, ?) stores for a Nut object
NutRow(D, nut) ==
    [nut_id |-> NextRowid({n.nut_id : n \in D.nuts}),
     file_id |-> FileIdOf(D, nut.file_path),
     file_segment |-> nut.file_segment,
     file_element |-> nut.file_element,
     kind_codes_id |-> KindCodesIdOf(D, nut.kind, nut.codes),
     tmin_seconds |-> nut.tmin_seconds, tmin_offset |-> nut.tmin_offset,
     tmax_seconds |-> nut.tmax_seconds, tmax_offset |-> nut.tmax_offset,
     deltat |-> nut.deltat, kscale |-> Nut_kscale(nut)]

\* UNIQUE INDEX (file_id, file_segment, file_element) and PRIMARY KEY nut_id
RowConflicts(rows, r) ==
    \E x \in rows :
        \/ x.nut_id = r.nut_id
        \/ /\ x.file_id = r.file_id
           /\ x.file_segment = r.file_segment
           /\ x.file_element = r.file_element

\* executemany(INSERT INTO nuts ...): one statement per nut; a constraint
\* failure aborts that statement and raises, the earlier rows stay
RECURSIVE InsertNuts(_, _)
RECURSIVE InsertNutRow(_, _, _)
InsertNutRow(D, r, rest) ==
    IF RowConflicts(D.nuts, r)
    THEN [D |-> D, exc |-> "IntegrityError"]
    ELSE InsertNuts(
            [D EXCEPT !.nuts = @ \cup {r},
                      !.kind_codes_count = IncrementCount(@, r.kind_codes_id)],
            rest)

InsertNuts(D, nuts) ==
    IF nuts = <<>> THEN [D |-> D, exc |-> "none"]
    ELSE InsertNutRow(D, NutRow(D, Head(nuts)), Tail(nuts))

\* Database.dig(nuts); forder / korder are the orders in which the two
\* Python sets are iterated
Database_dig(D, nuts, forder, korder) ==
    IF nuts = <<>> THEN [D |-> D, exc |-> "none"]
    ELSE InsertNuts(
            InsertOrIgnoreKinds(
                UpdateFiles(InsertOrIgnoreFiles(D, forder), forder), korder),
            nuts)

\* the Nut object Nut(values_nocheck=row) built from a joined row
RowToNut(D, r) ==
    LET f == D.files[r.file_id] kc == D.kind_codes[r.kind_codes_id]
    IN [file_path |-> f.path, file_format |-> f.format,
        file_mtime |-> f.mtime, file_size |-> f.size,
        file_segment |-> r.file_segment, file_element |-> r.file_element,
        kind |-> kc[1], codes |-> kc[2],
        tmin_seconds |-> r.tmin_seconds, tmin_offset |-> r.tmin_offset,
        tmax_seconds |-> r.tmax_seconds, tmax_offset |-> r.tmax_offset,
        deltat |-> r.deltat]

\* rows of a nuts table in rowid order
RowsInOrder(rows, ids) ==
    [i \in 1..Len(ids) |-> CHOOSE r \in rows : r.nut_id = ids[i]]

RowsByNutId(rows) == RowsInOrder(rows, SetToSeq({r.nut_id : r \in rows}))

\* the Nut objects of a list of joined rows
RowsToNuts(D, rows) == [i \in 1..Len(rows) |-> RowToNut(D, rows[i])]

\* Database.undig(path)
Database_undig(D, path) ==
    RowsToNuts(D, RowsByNutId({n \in D.nuts : n.file_id = FileIdOf(D, path)}))

\* Database.undig_all over the joined rows in the order the SELECT (which
\* has no ORDER BY) returns them; path and nutlist are the locals of the
\* loop, path NULL for None
RECURSIVE UndigAllLoop(_, _, _, _)
UndigAllLoop(D, rows, path, nutlist) ==
    IF rows = <<>>
    THEN (IF path # NULL THEN << <<path, nutlist>> >> ELSE <<>>)
    ELSE (IF path # NULL /\ RowToNut(D, Head(rows)).file_path # path
          THEN << <<path, nutlist>> >> ELSE <<>>)
         \o UndigAllLoop(D, Tail(rows), RowToNut(D, Head(rows)).file_path,
               (IF path # NULL /\ RowToNut(D, Head(rows)).file_path # path
                THEN <<>> ELSE nutlist)
               \o (IF RowToNut(D, Head(rows)).file_format # "NULL"
                   THEN <<RowToNut(D, Head(rows))>> ELSE <<>>))

\* Database.undig_all(), the groups it yields
Database_undig_all(D, rows) == UndigAllLoop(D, rows, NULL, <<>>)

(* ------------------------- base.py: Selection -------------------------- *)

\* INSERT OR IGNORE INTO files SELECT NULL, path, NULL, NULL, NULL
\* FROM bulkinsert
RECURSIVE BulkInsertFiles(_, _)
BulkInsertFiles(D, paths) ==
    IF paths = <<>> THEN D
    ELSE BulkInsertFiles(
            InsertOrIgnoreFile(D, Head(paths), "NULL", NULL, NULL), Tail(paths))

\* INSERT OR IGNORE INTO file_states SELECT files.file_id, ?
\* FROM bulkinsert INNER JOIN files ON bulkinsert.path == files.path
BulkInsertStates(D, fs, paths, state) ==
    LET new == {FileIdOf(D, paths[i]) : i \in 1..Len(paths)} \ DOMAIN fs
    IN fs @@ [f \in new |-> state]

\* Selection.add(file_paths, state) on the selection with state table fs:
\* the store and the state table afterwards
AddStates(D1, fs, paths, state) ==
    [D |-> D1, fs |-> BulkInsertStates(D1, fs, paths, state)]

Selection_add(D, fs, paths, state) ==
    AddStates(BulkInsertFiles(D, paths), fs, paths, state)

\* Selection.remove(file_paths): DELETE FROM file_states WHERE file_id ==
\* (SELECT file_id FROM files WHERE path == ?), per path; the file ids
\* whose rows are deleted
RemovedIds(D, fs, paths) ==
    {FileIdOf(D, paths[i]) : i \in 1..Len(paths)} \cap DOMAIN fs

\* the projection left as it is when files leave the selection
KeepProjection(D, s, fids) == D

RECURSIVE DeleteSquirrelNutsOf(_, _, _)
DeleteSquirrelNutsOf(D, s, fids) ==
    IF fids = {} THEN D
    ELSE DeleteSquirrelNutsOf(DeleteSquirrelNuts(D, s, Min(fids)), s,
                              fids \ {Min(fids)})

\* DELETE FROM file_states for the file ids gone
DeleteStates(T, s, gone) ==
    [T EXCEPT !.file_states[s] = [f \in DOMAIN @ \ gone |-> @[f]]]

\* Selection.remove on squirrel s, with its trigger <file_states>_delete_files
Squirrel_remove(D, s, paths) ==
    DeleteStates(
        DeleteSquirrelNutsOf(D, s, RemovedIds(D, D.file_states[s], paths)),
        s, RemovedIds(D, D.file_states[s], paths))

(* --------------- the files on disk and the io backends ----------------- *)
(* disk[p] = [mtime, what, cid]: what is "ok" (readable, holding content   *)
(* Contents[cid]), "gone" (open and stat fail: FileLoadError) or "broken"  *)
(* (detected and stat'ed, but the backend's iload raises FileLoadError     *)
(* after the first nut of Contents[cid]).                                  *)

\* what a backend's iload builds: model.Nut(file_segment, file_element,
\* kind, codes, tmin, tmax) for times in ticks (Nut.__init__ tsplits them)
BackendNut(seg, elem, kind, codes, tmin, tmax) ==
    [file_path |-> 0, file_format |-> "NULL", file_mtime |-> NULL,
     file_size |-> NULL, file_segment |-> seg, file_element |-> elem,
     kind |-> kind, codes |-> codes,
     tmin_seconds |-> tsplit(tmin)[1], tmin_offset |-> tsplit(tmin)[2],
     tmax_seconds |-> tsplit(tmax)[1], tmax_offset |-> tsplit(tmax)[2],
     deltat |-> NULL]

\* The file contents of the scenario: a one-trace waveform file at t = 0
\* (test_add_update, make_files(0)), a two-line station file without dates,
\* and a file of a detected format that holds no nut (a StationXML document
\* without stations).
Contents ==
    << <<BackendNut(0, 0, "waveform", "STA", 0, TRes)>>,
       <<BackendNut(0, 0, "station", "S", NULL, NULL),
         BackendNut(0, 1, "station", "S", NULL, NULL)>>,
       <<>> >>

FormatOf(cid) ==
    IF cid = 2 THEN "pyrocko_stations"
    ELSE IF cid = 3 THEN "stationxml" ELSE "mseed"
KnownFormats == {"mseed", "pyrocko_stations", "stationxml", "virtual"}

DiskFiles ==
    {[mtime |-> m, what |-> "ok", cid |-> c] :
        m \in 1..MaxMtime, c \in 1..Len(Contents)}
    \cup {[mtime |-> m, what |-> "gone", cid |-> 0] : m \in 1..MaxMtime}
    \cup {[mtime |-> m, what |-> "broken", cid |-> 2] : m \in 1..MaxMtime}

\* io.get_backend(fmt) raises UnknownFormat
UnknownFormat(fmt) == fmt \notin KnownFormats

\* mod.get_stats(path) raises FileLoadError
StatFails(dk, path) == dk[path].what = "gone"

\* mod.get_stats(path) = (mtime, size)
get_stats(dk, path) ==
    <<dk[path].mtime,
      IF dk[path].cid = 0 THEN 0 ELSE Len(Contents[dk[path].cid])>>

\* detect_format(path) raises FormatDetectionFailed (a FileLoadError)
DetectFails(dk, path) == dk[path].what = "gone"

\* detect_format(path)
detect_format(dk, path) == FormatOf(dk[path].cid)

\* mod.iload(format, path, segment, content): the nuts the backend yields
\* before it ends or raises
BackendNuts(dk, path) ==
    IF dk[path].what = "ok" THEN Contents[dk[path].cid]
    ELSE IF dk[path].what = "broken"
         THEN SubSeq(Contents[dk[path].cid], 1, 1)
         ELSE <<>>

\* mod.iload(...) raises FileLoadError while reading
ReadFails(dk, path) == dk[path].what = "broken"

(* --------------- base.py: Selection.flag_unchanged --------------------- *)

\* the state table left as it is by the first UPDATE of flag_unchanged
FlagKeep(D, fs) == fs

\* first UPDATE: file_state = 0 WHERE (SELECT mtime FROM files ...) IS NULL
FlagUnknown(D, fs) ==
    [f \in DOMAIN fs |->
        IF f \notin DOMAIN D.files \/ D.files[f].mtime = NULL
        THEN 0 ELSE fs[f]]

\* iter_file_states: the rows (file_state != 0, INNER JOIN files) it visits
FlagCandidates(D, fs) == {f \in DOMAIN fs \cap DOMAIN D.files : fs[f] # 0}

\* the rows whose stored pair is the one on disk
FlagMatching(D, dk, fs) ==
    {f \in FlagCandidates(D, fs) :
        /\ ~UnknownFormat(D.files[f].format)
        /\ ~StatFails(dk, D.files[f].path)
        /\ <<D.files[f].mtime, D.files[f].size>>
              = get_stats(dk, D.files[f].path)}

\* iter_file_states: the rows for which it yields (0, file_id)
FlagModified(D, dk, fs) ==
    {f \in FlagCandidates(D, fs) :
        /\ ~UnknownFormat(D.files[f].format)
        /\ \/ StatFails(dk, D.files[f].path)
           \/ <<D.files[f].mtime, D.files[f].size>>
                # get_stats(dk, D.files[f].path)}

\* UPDATE file_state = 0 for the rows iter_file_states yields
FlagZero(fs, ids) == [f \in DOMAIN fs |-> IF f \in ids THEN 0 ELSE fs[f]]

\* the second half of flag_unchanged, on the table fs1 left by the first
FlagChecked(D, dk, fs1, check) ==
    IF ~check THEN fs1 ELSE FlagZero(fs1, FlagModified(D, dk, fs1))

\* Selection.flag_unchanged(check): the state table afterwards
flag_unchanged(D, dk, fs, check) ==
    FlagChecked(D, dk, FlagUnknown(D, fs), check)

\* the paths whose backend get_stats flag_unchanged(check) calls
FlagStatCalls(D, dk, fs, check) ==
    IF ~check THEN {}
    ELSE {D.files[f].path : f \in
            {g \in FlagCandidates(D, FlagUnknown(D, fs)) :
                ~UnknownFormat(D.files[g].format)}}

(* --------------- base.py: Selection.undig_grouped ---------------------- *)

\* Nut(values_nocheck=values) for the row of a file that has a format but
\* no nut (all nut columns NULL in the LEFT OUTER JOIN)
NullNut(f) ==
    [file_path |-> f.path, file_format |-> f.format, file_mtime |-> f.mtime,
     file_size |-> f.size, file_segment |-> NULL, file_element |-> NULL,
     kind |-> "NULL", codes |-> "NULL",
     tmin_seconds |-> NULL, tmin_offset |-> NULL,
     tmax_seconds |-> NULL, tmax_offset |-> NULL, deltat |-> NULL]

\* the nuts list of the group of file fid, whose joined rows are rows
GroupOfRows(D, fid, rows) ==
    IF rows # <<>> THEN RowsToNuts(D, rows)
    ELSE IF D.files[fid].format # "NULL" THEN <<NullNut(D.files[fid])>>
    ELSE <<>>

GroupNuts(D, fid) ==
    GroupOfRows(D, fid, RowsByNutId({n \in D.nuts : n.file_id = fid}))

\* Selection.undig_grouped(skip_unchanged): the (path, nuts) groups in
\* file_id order. A state row whose files row is gone joins to a NULL path
\* and is never yielded as a group.
RECURSIVE GroupsOf(_, _)
GroupsOf(D, fids) ==
    IF fids = <<>> THEN <<>>
    ELSE (IF Head(fids) \in DOMAIN D.files
          THEN << <<D.files[Head(fids)].path, GroupNuts(D, Head(fids))>> >>
          ELSE <<>>)
         \o GroupsOf(D, Tail(fids))

\* undig_grouped without its WHERE clause: every file of the selection
UndigEvery(D, fs, skip_unchanged) == GroupsOf(D, SetToSeq(DOMAIN fs))

undig_grouped(D, fs, skip_unchanged) ==
    GroupsOf(D, SetToSeq({f \in DOMAIN fs : ~skip_unchanged \/ fs[f] = 0}))

(* ------------------------- io/base.py: iload --------------------------- *)
(* The result of a run is a record                                         *)
(*   D       the store afterwards                                          *)
(*   exc     the exception that reaches the caller ("none" if none)        *)
(*   yielded the nuts yielded, in order                                    *)
(*   stats / loads / digs / resets: the paths for which the backend's      *)
(*           get_stats, the backend's iload, Database.dig and              *)
(*           Database.reset were called                                    *)

\* the nuts a backend yields with path, format, mtime, size attached
AttachFile(nuts, path, format, st) ==
    [i \in 1..Len(nuts) |->
        [nuts[i] EXCEPT !.file_path = path, !.file_format = format,
                        !.file_mtime = st[1], !.file_size = st[2]]]

\* nuts != old_nuts: list comparison by Nut.__eq__
NutsDiffer(a, b) ==
    \/ Len(a) # Len(b)
    \/ \E i \in 1..Len(a) : equality_values(a[i]) # equality_values(b[i])

\* Nut.file_modified(): get_stats(path) != (file_mtime, file_size)
file_modified(dk, nut) ==
    get_stats(dk, nut.file_path) # <<nut.file_mtime, nut.file_size>>

Outcome(D, exc, yielded, stats, loads, digs, resets) ==
    [D |-> D, exc |-> exc, yielded |-> yielded, stats |-> stats,
     loads |-> loads, digs |-> digs, resets |-> resets]

NoOutcome(D) == Outcome(D, "none", <<>>, {}, {}, {}, {})

(* The body of the loop over (path, old_nuts), lines 178-239, runs through *)
(* four stages. Between them it carries a record T:                        *)
(*   exc         "none", "FileLoadError" or "UnknownFormat" once raised    *)
(*   cached      the cached nuts were served (the `continue` of line 201)  *)
(*   old_nuts    the cached nuts still trusted                             *)
(*   format_this the format the file is read with                          *)
(*   nuts        the nuts read (those yielded before a failure)            *)
(*   stats, loads  the backend calls made                                  *)
Stage(exc, cached, old_nuts, format_this, nuts, stats, loads) ==
    [exc |-> exc, cached |-> cached, old_nuts |-> old_nuts,
     format_this |-> format_this, nuts |-> nuts, stats |-> stats,
     loads |-> loads]

Stopped(T) == T.exc # "none" \/ T.cached

\* lines 179-180: if check and old_nuts and old_nuts[0].file_modified()
CheckStage(dk, path, old_nuts, check) ==
    IF ~check \/ old_nuts = <<>>
    THEN Stage("none", FALSE, old_nuts, "NULL", <<>>, {}, {})
    ELSE IF UnknownFormat(old_nuts[1].file_format)
    THEN Stage("UnknownFormat", FALSE, old_nuts, "NULL", <<>>, {}, {})
    ELSE IF StatFails(dk, path)
    THEN Stage("FileLoadError", FALSE, old_nuts, "NULL", <<>>, {path}, {})
    ELSE Stage("none", FALSE,
               IF file_modified(dk, old_nuts[1]) THEN <<>> ELSE old_nuts,
               "NULL", <<>>, {path}, {})

\* lines 185-201 never taken: every file is read again
NeverCached(T, content_empty) == T

\* lines 185-201: the cached nuts are served (content = [] makes it a
\* database-only operation; index nuts never have content_in_db)
CachedStage(T, content_empty) ==
    IF Stopped(T) THEN T
    ELSE [T EXCEPT !.cached = T.old_nuts # <<>> /\ content_empty]

\* lines 203-209: the format the file is read with
FormatStage(T, dk, path, format) ==
    IF Stopped(T) THEN T
    ELSE IF format # "detect" THEN [T EXCEPT !.format_this = format]
    ELSE IF T.old_nuts # <<>> /\ UnknownFormat(T.old_nuts[1].file_format)
    THEN [T EXCEPT !.exc = "UnknownFormat"]
    ELSE IF T.old_nuts # <<>> /\ StatFails(dk, path)
    THEN [T EXCEPT !.exc = "FileLoadError", !.stats = @ \cup {path}]
    ELSE IF T.old_nuts # <<>> /\ ~file_modified(dk, T.old_nuts[1])
    THEN [T EXCEPT !.format_this = T.old_nuts[1].file_format,
                   !.stats = @ \cup {path}]
    ELSE IF DetectFails(dk, path)
    THEN [T EXCEPT !.exc = "FileLoadError",
                   !.stats = @ \cup (IF T.old_nuts # <<>> THEN {path} ELSE {})]
    ELSE [T EXCEPT !.format_this = detect_format(dk, path),
                   !.stats = @ \cup (IF T.old_nuts # <<>> THEN {path} ELSE {})]

\* lines 211-224 with a get_backend that raises FileLoadError for a format
\* no backend provides
LenientRead(T, dk, path) ==
    IF Stopped(T) THEN T
    ELSE [T EXCEPT !.exc = "FileLoadError"]

\* lines 211-224: get_backend, get_stats, the backend's iload
ReadStage(T, dk, path) ==
    IF Stopped(T) THEN T
    ELSE IF UnknownFormat(T.format_this)
    THEN [T EXCEPT !.exc = "UnknownFormat"]
    ELSE IF StatFails(dk, path)
    THEN [T EXCEPT !.exc = "FileLoadError", !.stats = @ \cup {path}]
    ELSE [T EXCEPT
            !.exc = IF ReadFails(dk, path) THEN "FileLoadError" ELSE "none",
            !.nuts = AttachFile(BackendNuts(dk, path), path, T.format_this,
                                get_stats(dk, path)),
            !.stats = @ \cup {path},
            !.loads = {path}]

\* line 234: database.dig(nuts) has returned r (or raised r.exc)
DigOutcome(r, T, path) ==
    Outcome(r.D, r.exc, T.nuts, T.stats, T.loads, {path}, {})

\* lines 226-239: dig on a difference; reset on FileLoadError
FinishFile(D, T, hasdb, path) ==
    IF T.exc = "UnknownFormat"
    THEN Outcome(D, "UnknownFormat", T.nuts, T.stats, T.loads, {}, {})
    ELSE IF T.exc = "FileLoadError"
    THEN Outcome(IF hasdb THEN Database_reset(D, path) ELSE D, "none",
                 T.nuts, T.stats, T.loads, {},
                 IF hasdb THEN {path} ELSE {})
    ELSE IF T.cached
    THEN Outcome(D, "none", T.old_nuts, T.stats, T.loads, {}, {})
    ELSE IF hasdb /\ NutsDiffer(T.nuts, T.old_nuts)
    THEN DigOutcome(
            Database_dig(D, T.nuts,
                CHOOSE q \in Enumerations(DigFileSet(T.nuts)) : TRUE,
                CHOOSE q \in Enumerations(DigKindCodesSet(T.nuts)) : TRUE),
            T, path)
    ELSE Outcome(D, "none", T.nuts, T.stats, T.loads, {}, {})

\* the body of the loop over (path, old_nuts), lines 178-239
IloadFile(D, dk, hasdb, path, old_nuts, check, content_empty, format) ==
    FinishFile(D,
        ReadStage(
            FormatStage(
                CachedStage(CheckStage(dk, path, old_nuts, check),
                            content_empty),
                dk, path, format),
            dk, path),
        hasdb, path)

\* what the loop has done after the file whose outcome is r
Merge(R, r) ==
    Outcome(r.D, r.exc, R.yielded \o r.yielded, R.stats \cup r.stats,
            R.loads \cup r.loads, R.digs \cup r.digs,
            R.resets \cup r.resets)

\* the loop: an exception other than FileLoadError ends it
RECURSIVE IloadLoop(_, _, _, _, _, _, _)
IloadLoop(R, dk, hasdb, groups, check, content_empty, format) ==
    IF groups = <<>> \/ R.exc # "none" THEN R
    ELSE IloadLoop(
            Merge(R, IloadFile(R.D, dk, hasdb, Head(groups)[1],
                               Head(groups)[2], check, content_empty, format)),
            dk, hasdb, Tail(groups), check, content_empty, format)

\* lines 159-163: flag_unchanged(check) when skip_unchanged
Flagged(D, dk, fs, check, skip_unchanged) ==
    IF skip_unchanged THEN flag_unchanged(D, dk, fs, check) ELSE fs

AddStats(R, stats) == [R EXCEPT !.stats = @ \cup stats]

\* the store with the state table of selection s replaced
WithStates(D, s, fs) == [D EXCEPT !.file_states[s] = fs]

\* iload(selection, ...) for the selection of squirrel s
IloadFlagged(D, dk, s, fs, check, skip_unchanged, content_empty, format) ==
    IloadLoop(NoOutcome(WithStates(D, s, fs)), dk, TRUE,
              undig_grouped(D, fs, skip_unchanged),
              check, content_empty, format)

IloadSelection(D, dk, s, check, skip_unchanged, content_empty, format) ==
    AddStats(
        IloadFlagged(D, dk, s,
            Flagged(D, dk, D.file_states[s], check, skip_unchanged),
            check, skip_unchanged, content_empty, format),
        IF skip_unchanged
        THEN FlagStatCalls(D, dk, D.file_states[s], check) ELSE {})

\* iload(paths, database=db, ...) for a list of paths: a temporary
\* selection a (new_selection(paths, state=1)) is made and dropped
IloadTemporary(a, dk, check, skip_unchanged, content_empty, format) ==
    AddStats(
        IloadLoop(NoOutcome(a.D), dk, TRUE,
                  undig_grouped(a.D,
                      Flagged(a.D, dk, a.fs, check, skip_unchanged),
                      skip_unchanged),
                  check, content_empty, format),
        IF skip_unchanged THEN FlagStatCalls(a.D, dk, a.fs, check) ELSE {})

IloadPaths(D, dk, paths, check, skip_unchanged, content_empty, format) ==
    IloadTemporary(Selection_add(D, EmptyFn, paths, 1), dk, check,
                   skip_unchanged, content_empty, format)

\* iload(paths, ...) without a database
RECURSIVE PathGroups(_)
PathGroups(paths) ==
    IF paths = <<>> THEN <<>>
    ELSE << <<Head(paths), <<>> >> >> \o PathGroups(Tail(paths))

IloadNoDatabase(D, dk, paths, check, content_empty, format) ==
    IloadLoop(NoOutcome(D), dk, FALSE, PathGroups(paths), check,
              content_empty, format)

(* ------------- io/base.py: iload(path, segment=..., database) ---------- *)

\* the segment argument of iload
SegmentArgs == {0, 1}

\* line 183: old_nuts = [nut for nut in old_nuts if nut.segment == segment]
\* A Nut has file_segment and no attribute segment (model.py 148-168): the
\* comparison raises AttributeError for the first nut there is.
SegmentFilter(T, segment) ==
    IF Stopped(T) \/ T.old_nuts = <<>> THEN T
    ELSE [T EXCEPT !.exc = "AttributeError"]

\* line 228: nuts = mod.iload(format_this, path, None, []), the generator
\* of a backend; lines 229-232 set file_path, file_format and file_mtime
\* of each nut it yields
RereadNuts(dk, path, format_this) ==
    AttachFile(BackendNuts(dk, path), path, format_this,
               <<get_stats(dk, path)[1], NULL>>)

\* what a generator yields to Database.dig after the for loop of lines
\* 229-232 has run through it: nothing
Exhausted(nutlist) == <<>>

\* lines 226-239 with a segment: the file is read again without segment
\* and dig gets the generator
FinishSegment(D, T, dk, path) ==
    IF T.exc = "AttributeError"
    THEN Outcome(D, "AttributeError", <<>>, T.stats, {}, {}, {})
    ELSE IF T.exc = "none" /\ ~T.cached /\ NutsDiffer(T.nuts, T.old_nuts)
    THEN DigOutcome(
            Database_dig(D, Exhausted(RereadNuts(dk, path, T.format_this)),
                         <<>>, <<>>),
            T, path)
    ELSE FinishFile(D, T, TRUE, path)

\* the loop body for the one file of iload(path, segment=segment,
\* database=db, check=check)
IloadSegmentFile(D, dk, path, old_nuts, segment, check) ==
    FinishSegment(D,
        ReadStage(
            FormatStage(
                CachedStage(
                    SegmentFilter(CheckStage(dk, path, old_nuts, check),
                                  segment),
                    FALSE),
                dk, path, "detect"),
            dk, path),
        dk, path)

\* iload(path, segment=segment, database=db, check=check), run to its end
IloadSegment(D, dk, path, segment, check) ==
    IloadSegmentFile(Selection_add(D, EmptyFn, <<path>>, 1).D, dk, path,
        GroupNuts(Selection_add(D, EmptyFn, <<path>>, 1).D,
                  FileIdOf(Selection_add(D, EmptyFn, <<path>>, 1).D, path)),
        segment, check)

(* ------------- io/base.py: iload as the generator it is ---------------- *)
(* A consumer draws from iload(paths, database=db). The generator is at    *)
(*   idle     there is none                                                *)
(*   next     at the head of the loop over (path, old_nuts)                *)
(*   reading  suspended at the yield of line 224, in the backend's loop    *)
(* groups are the (path, old_nuts) still to come, T the stage record of    *)
(* the file being read, indexed the old_nuts the loop received for it,     *)
(* todo the nuts the backend has yet to yield, read the list nuts of line  *)
(* 215, failed whether the except clause of line 236 ran for it, and last  *)
(* says how the generator ended ("none" while there was none or it runs,   *)
(* "finished", "abandoned", "raised").                                     *)

NoGenerator(last) ==
    [pc |-> "idle", groups |-> <<>>, check |-> FALSE, content_empty |-> FALSE,
     path |-> 0, T |-> Stage("none", FALSE, <<>>, "NULL", <<>>, {}, {}),
     indexed |-> <<>>, todo |-> <<>>, read |-> <<>>, failed |-> FALSE, last |-> last]

\* the generator, just made: lines 153-163 have run on the first next()
NewGenerator(groups, check, content_empty) ==
    [NoGenerator("none") EXCEPT !.pc = "next", !.groups = groups,
                                !.check = check,
                                !.content_empty = content_empty]

\* lines 179-212 for the file at the head of the loop: the stages up to
\* the call of the backend's iload
BeforeRead(g, dk) ==
    ReadStage(
        FormatStage(
            CachedStage(CheckStage(dk, Head(g.groups)[1], Head(g.groups)[2],
                                   g.check),
                        g.content_empty),
            dk, Head(g.groups)[1], "detect"),
        dk, Head(g.groups)[1])

\* the backend's iload is entered: no exception so far and nothing cached
EntersRead(T) == ~T.cached /\ T.loads # {}

\* the generator suspended at the first yield of the file at the head
StartReading(g, T) ==
    [g EXCEPT !.pc = "reading", !.groups = Tail(g.groups),
              !.path = Head(g.groups)[1], !.T = T,
              !.indexed = Head(g.groups)[2], !.todo = T.nuts,
              !.read = <<>>, !.failed = FALSE]

\* the nuts read so far are dug as each one is yielded
DigEachNut(D, read) ==
    Database_dig(D, read,
                 CHOOSE q \in Enumerations(DigFileSet(read)) : TRUE,
                 CHOOSE q \in Enumerations(DigKindCodesSet(read)) : TRUE).D

\* lines 215-224: nuts.append(nut); yield nut leave the database alone
AfterYield(D, read) == D

(* ------------------------- base.py: Squirrel --------------------------- *)

\* the rows selected without the condition on the kinds
AllKindsRows(D, s, kinds) ==
    {n \in D.nuts :
        /\ n.file_id \in DOMAIN D.file_states[s]
        /\ D.file_states[s][n.file_id] # 2
        /\ n.kind_codes_id \in 1..Len(D.kind_codes)}

\* the rows INSERT INTO <nuts> SELECT nuts.* ... WHERE file_state != 2
\* [AND kind_codes.kind IN kinds] selects; kinds = {} stands for None
UpdateRows(D, s, kinds) ==
    {n \in D.nuts :
        /\ n.file_id \in DOMAIN D.file_states[s]
        /\ D.file_states[s][n.file_id] # 2
        /\ n.kind_codes_id \in 1..Len(D.kind_codes)
        /\ kinds = {} \/ D.kind_codes[n.kind_codes_id][1] \in kinds}

\* the counts incremented once for a whole INSERT ... SELECT statement
\* (a statement-level instead of a row-level trigger)
IncrementOnce(count, rows) ==
    IF rows = {} THEN count
    ELSE IncrementCount(count, (CHOOSE r \in rows : TRUE).kind_codes_id)

RECURSIVE IncrementCounts(_, _)
IncrementCounts(count, rows) ==
    IF rows = {} THEN count
    ELSE IncrementCounts(
            IncrementCount(count, (CHOOSE r \in rows : TRUE).kind_codes_id),
            rows \ {CHOOSE r \in rows : TRUE})

\* the INSERT of the rows and the UPDATE file_state = 2; a constraint
\* failure aborts the INSERT statement as a whole and raises
InsertProjection(D, s, rows) ==
    IF \E r \in rows : RowConflicts(D.sq_nuts[s], r)
    THEN [D |-> D, exc |-> "IntegrityError"]
    ELSE [D |-> [D EXCEPT
                   !.sq_nuts[s] = @ \cup rows,
                   !.sq_count[s] = IncrementCounts(@, rows),
                   !.file_states[s] = [f \in DOMAIN @ |-> 2]],
          exc |-> "none"]

\* Squirrel._update_nuts(kinds)
Squirrel_update_nuts(D, s, kinds) ==
    InsertProjection(D, s, UpdateRows(D, s, kinds))

\* the end of Squirrel.add: _update_nuts unless _load has raised
WithUpdate(R, u) == [R EXCEPT !.D = u.D, !.exc = u.exc]

UpdateAfterLoad(R, s, kinds) ==
    IF R.exc # "none" THEN R
    ELSE WithUpdate(R, Squirrel_update_nuts(R.D, s, kinds))

\* the store after Selection.add(self, file_paths) on squirrel s
StoreOfAdd(a, s) == WithStates(a.D, s, a.fs)

\* Squirrel.add(file_paths, kinds, format, check)
Squirrel_add(D, dk, s, paths, kinds, format, check) ==
    UpdateAfterLoad(
        IloadSelection(
            StoreOfAdd(Selection_add(D, D.file_states[s], paths, 0), s),
            dk, s, check, TRUE, TRUE, format),
        s, kinds)

\* Squirrel.get_nfiles(), Squirrel.get_nnuts()
get_nfiles(D, s) == Cardinality(DOMAIN D.file_states[s])
get_nnuts(D, s) == Cardinality(D.sq_nuts[s])

(* ------------------- base.py: the Squirrel's queries ------------------ *)

\* a lower end that leaves the scale of the duration class out
WindowLower(t0_seconds, tscale) == t0_seconds - 1

\* the lower end of BETWEEN ? AND ? for a duration class of scale tscale
SpanLower(t0_seconds, tscale) == t0_seconds - tscale - 1

\* one element of tmin_cond, for kscale in range(tscale_edges.size + 1);
\* a comparison with a NULL column is not true
KscaleCond(r, kscale, t0_seconds, t1_seconds) ==
    /\ r.kscale = kscale
    /\ r.tmin_seconds # NULL
    /\ r.tmin_seconds <= t1_seconds + 1
    /\ kscale # Len(tscale_edges) =>
          r.tmin_seconds >= SpanLower(t0_seconds, tscale_edges[kscale + 1])

\* WHERE (tmin_cond OR ...) AND tmax_seconds >= ?
SpanPrefilter(r, t0_seconds, t1_seconds) ==
    /\ \E kscale \in 0..Len(tscale_edges) :
          KscaleCond(r, kscale, t0_seconds, t1_seconds)
    /\ r.tmax_seconds # NULL
    /\ r.tmax_seconds >= t0_seconds

\* WHERE tmax_seconds >= ? AND tmin_seconds <= ?  of _undig_span_naiv
NaivPrefilter(r, t0_seconds, t1_seconds) ==
    /\ r.tmax_seconds # NULL
    /\ r.tmax_seconds >= t0_seconds
    /\ r.tmin_seconds # NULL
    /\ r.tmin_seconds <= t1_seconds + 1

\* the comparison with closed ends
Touches(nut, tmin, tmax) == Nut_tmin(nut) <= tmax /\ tmin <= Nut_tmax(nut)

\* if nut.tmin < tmax and tmin < nut.tmax
Intersects(nut, tmin, tmax) == Nut_tmin(nut) < tmax /\ tmin < Nut_tmax(nut)

\* the rows of the projection the INNER JOINs keep
JoinedRows(D, s) ==
    {r \in D.sq_nuts[s] :
        /\ r.file_id \in DOMAIN D.files
        /\ r.kind_codes_id \in 1..Len(D.kind_codes)}

\* the rows whose nuts Squirrel.undig_span(tmin, tmax) yields
SpanRows(D, s, tmin, tmax) ==
    {r \in JoinedRows(D, s) :
        /\ SpanPrefilter(r, tsplit(tmin)[1], tsplit(tmax)[1])
        /\ Intersects(RowToNut(D, r), tmin, tmax)}

\* the rows whose nuts Squirrel._undig_span_naiv(tmin, tmax) yields
NaivRows(D, s, tmin, tmax) ==
    {r \in JoinedRows(D, s) :
        /\ NaivPrefilter(r, tsplit(tmin)[1], tsplit(tmax)[1])
        /\ Intersects(RowToNut(D, r), tmin, tmax)}

\* the multiset of the Nut objects built from rows: nut -> how many
NutBag(D, rows) ==
    [n \in {RowToNut(D, r) : r \in rows} |->
        Cardinality({r \in rows : RowToNut(D, r) = n})]

undig_span(D, s, tmin, tmax) == NutBag(D, SpanRows(D, s, tmin, tmax))
undig_span_naiv(D, s, tmin, tmax) == NutBag(D, NaivRows(D, s, tmin, tmax))

\* a span that leaves the offsets within the second out
WholeSeconds(seconds, offsets) ==
    IF seconds = {} THEN NULL ELSE Min(seconds) * TRes

\* SELECT MIN(tmin_seconds + tmin_offset) FROM <nuts> WHERE tmin_seconds ==
\* (SELECT MIN(tmin_seconds) FROM <nuts>): MIN passes NULL columns over and
\* is NULL over no rows; offsets holds the offsets of the rows the WHERE
\* keeps, given their seconds
TimeSpanMin(seconds, offsets) ==
    IF seconds = {} THEN NULL
    ELSE Min({Min(seconds) * TRes + o : o \in offsets[Min(seconds)]})

\* SELECT MAX(tmax_seconds + tmax_offset) FROM <nuts> WHERE tmax_seconds ==
\* (SELECT MAX(tmax_seconds) FROM <nuts>)
TimeSpanMax(seconds, offsets) ==
    IF seconds = {} THEN NULL
    ELSE Max({Max(seconds) * TRes + o : o \in offsets[Max(seconds)]})

\* Squirrel.time_span()
time_span(D, s) ==
    <<TimeSpanMin(
          {r.tmin_seconds : r \in D.sq_nuts[s]} \ {NULL},
          [sec \in {r.tmin_seconds : r \in D.sq_nuts[s]} \ {NULL} |->
              {r.tmin_offset : r \in {x \in D.sq_nuts[s] :
                                         x.tmin_seconds = sec}}]),
      TimeSpanMax(
          {r.tmax_seconds : r \in D.sq_nuts[s]} \ {NULL},
          [sec \in {r.tmax_seconds : r \in D.sq_nuts[s]} \ {NULL} |->
              {r.tmax_offset : r \in {x \in D.sq_nuts[s] :
                                         x.tmax_seconds = sec}}])>>

\* Database._iter_counts on the Squirrel's kind_codes_count:
\* ((kind, codes), count) for the rows with count > 0
iter_counts(D, s) ==
    {<<D.kind_codes[k], D.sq_count[s][k]>> :
        k \in {j \in DOMAIN D.sq_count[s] \cap (1..Len(D.kind_codes)) :
                 D.sq_count[s][j] > 0}}

\* Squirrel.iter_codes(kind=None), Squirrel.iter_kinds(codes=None)
iter_codes(D, s) == {x[1][2] : x \in iter_counts(D, s)}
iter_kinds(D, s) == {x[1][1] : x \in iter_counts(D, s)}

\* tuple(codes.split('\0')) for a codes string that holds no '\0' (as all
\* codes of the scenario), and '\0'.join(codes) for such a tuple
SplitCodes(codes) == <<codes>>
JoinCodes(codes) == codes[1]

\* the rows of a kind_codes_count table the INNER JOIN with kind_codes and
\* WHERE count > 0 keep
CountedIds(D, count) ==
    {k \in DOMAIN count \cap (1..Len(D.kind_codes)) : count[k] > 0}

\* an argument left at its default None, and one that is given
None == [given |-> FALSE]
Given(value) == [given |-> TRUE, value |-> value]

\* an answer that leaves the condition on kind or codes out
Unfiltered(arg, value) == TRUE

\* sel = 'AND kind_codes.kind == ?' (or codes), '' if the argument is None
SelCond(arg, value) == arg.given => value = arg.value

\* Database._iter_counts(kind, kind_codes_count): what is yielded, any order
Database_iter_counts(D, kind, count) ==
    {<<<<D.kind_codes[k][1], SplitCodes(D.kind_codes[k][2])>>, count[k]>> :
        k \in {j \in CountedIds(D, count) :
                 SelCond(kind, D.kind_codes[j][1])}}

\* Database._iter_codes(kind, kind_codes_count): SELECT DISTINCT codes
Database_iter_codes(D, kind, count) ==
    {SplitCodes(D.kind_codes[k][2]) :
        k \in {j \in CountedIds(D, count) :
                 SelCond(kind, D.kind_codes[j][1])}}

\* Database._iter_kinds(codes, kind_codes_count): SELECT DISTINCT kind
Database_iter_kinds(D, codes, count) ==
    {D.kind_codes[k][1] :
        k \in {j \in CountedIds(D, count) :
                 SelCond(IF codes.given THEN Given(JoinCodes(codes.value))
                         ELSE None,
                         D.kind_codes[j][2])}}

\* Squirrel.get_codes(kind), Squirrel.get_kinds(codes): sorted(list(...))
\* of distinct values, written as the set of its elements
get_codes(D, s, kind) == Database_iter_codes(D, kind, D.sq_count[s])
get_kinds(D, s, codes) == Database_iter_kinds(D, codes, D.sq_count[s])

(* --------------------- io/base.py: detect_format ----------------------- *)
(* The first 512 bytes of a file are described by what each backend's      *)
(* detect makes of them:                                                   *)
(*   mseed, sac, datacube   the format's own detector recognises them      *)
(*   sx                     they contain b'<FDSNStationXML'                *)
(*   text                   what detect_pyrocko_stations finds:            *)
(*       "binary"       they are not valid UTF-8                           *)
(*       "noline"       no line has 5 or 6 fields (an empty file too)      *)
(*       "badcodes"     the first such line has no net.sta.loc in front    *)
(*       "badnumber"    its fields 2 to 5 are not all numbers              *)
(*       "outofrange"   its latitude or longitude is out of range          *)
(*       "station"      it is a line of a station file                     *)

TextClasses ==
    {"binary", "noline", "badcodes", "badnumber", "outofrange", "station"}

Data512 ==
    [mseed : BOOLEAN, sac : BOOLEAN, datacube : BOOLEAN, sx : BOOLEAN,
     text : TextClasses]

\* f.read(512) of an empty file
EmptyData ==
    [mseed |-> FALSE, sac |-> FALSE, datacube |-> FALSE, sx |-> FALSE,
     text |-> "noline"]

\* the paths detect_format is called with: a 'virtual:' path, a path that
\* cannot be opened, or a file with its first 512 bytes
Probes ==
    {[virtual |-> TRUE, opens |-> FALSE, data |-> EmptyData],
     [virtual |-> FALSE, opens |-> FALSE, data |-> EmptyData]}
    \cup {[virtual |-> FALSE, opens |-> TRUE, data |-> d] : d \in Data512}

backend_modules ==
    <<"mseed", "sac", "datacube", "stationxml", "textfiles", "virtual">>

\* textfiles.detect_pyrocko_stations(first512): "True", "False" or the
\* exception that leaves it
detect_pyrocko_stations(data) ==
    IF data.text = "binary" THEN "UnicodeDecodeError"
    ELSE IF data.text = "badnumber" THEN "ValueError"
    ELSE IF data.text = "station" THEN "True"
    ELSE "False"

\* mod.detect(first512): a format tag, "None", or the exception
ModDetect(mod, data) ==
    IF mod = "mseed" THEN (IF data.mseed THEN "mseed" ELSE "None")
    ELSE IF mod = "sac" THEN (IF data.sac THEN "sac" ELSE "None")
    ELSE IF mod = "datacube" THEN (IF data.datacube THEN "datacube" ELSE "None")
    ELSE IF mod = "stationxml" THEN (IF data.sx THEN "stationxml" ELSE "None")
    ELSE IF mod = "textfiles"
    THEN (IF detect_pyrocko_stations(data) = "True" THEN "pyrocko_stations"
          ELSE IF detect_pyrocko_stations(data) = "False" THEN "None"
          ELSE detect_pyrocko_stations(data))
    ELSE "None"

\* the loop over backend_modules of detect_format
RECURSIVE DetectLoop(_, _)
DetectLoop(mods, data) ==
    IF mods = <<>> THEN "FormatDetectionFailed"
    ELSE IF ModDetect(Head(mods), data) # "None"
    THEN ModDetect(Head(mods), data)
    ELSE DetectLoop(Tail(mods), data)

\* detect_format(path): what it returns or raises, and whether it has
\* called open(path)
DetectFormat(probe) ==
    IF probe.virtual THEN [done |-> TRUE, result |-> "virtual", opened |-> FALSE]
    ELSE IF ~probe.opens
    THEN [done |-> TRUE, result |-> "FormatDetectionFailed", opened |-> TRUE]
    ELSE [done |-> TRUE, result |-> DetectLoop(backend_modules, probe.data),
          opened |-> TRUE]

\* detect_format has not been called
Pending == [done |-> FALSE, result |-> "None", opened |-> FALSE]

(* ------- base.py: get_database, Selection.__init__ and __del__ --------- *)
(* Selections of several processes on two database files. Each process    *)
(* has one connection per database (g_databases). The state is a record W *)
(*   psel     per database: the committed <name>_file_states tables of     *)
(*            the namespace main, by persistent name                       *)
(*   pending  per database: the process with an open write transaction     *)
(*            (0 if none) and the tables of main as that process sees them *)
(*   tsel     per process and database: the tables of the namespace temp,  *)
(*            by the serial number in their name                           *)
(*   alive    the Selection objects                                        *)
(*   icount   per process: g_icount                                        *)
(* A table maps the paths of its files to their states.                    *)

NProcs == 2
MaxNameLen == 2
MaxObjects == 2
MaxICount == 2

Procs == 1..NProcs

\* the database files: the user's default database and another one
DbNames == {"default", "other"}

\* the database argument of Selection: None, the path of the default
\* database, the path of another database
DbArgs == {"None", "default_path", "other_path"}

\* get_database(database): the database file the selection lives in
get_database(database) ==
    IF database = "other_path" THEN "other" ELSE "default"

\* the characters names are made of: a letter, a digit, the underscore,
\* a character that is none of these, and the newline
NameChars == {"a", "1", "_", "-", "\n"}

NameArgs == UNION {[1..n -> NameChars] : n \in 0..MaxNameLen}

\* the persistent argument of Selection: None or a name
PersistentArgs ==
    {[given |-> FALSE, name |-> <<>>]}
    \cup {[given |-> TRUE, name |-> n] : n \in NameArgs}

\* what $ leaves to match: the name without one trailing newline
BeforeEnd(name) ==
    IF name # <<>> /\ name[Len(name)] = "\n"
    THEN SubSeq(name, 1, Len(name) - 1) ELSE name

\* [a-zA-Z_][a-zA-Z0-9_]* matches the whole of name
IsIdentifier(name) ==
    /\ name # <<>>
    /\ name[1] \in {"a", "_"}
    /\ \A i \in 2..Len(name) : name[i] \in {"a", "1", "_"}

\* re.match(r'^[a-zA-Z_][a-zA-Z0-9_]*$', persistent)
NameMatches(name) == IsIdentifier(BeforeEnd(name))

\* CREATE TABLE IF NOT EXISTS main.psel_<name>_file_states parses
SqlParses(name) == \A i \in 1..Len(name) : name[i] \in {"a", "1", "_"}

NoPending == [owner |-> 0, tables |-> EmptyFn]

\* the tables of main of database db as process proc sees them
View(W, proc, db) ==
    IF W.pending[db].owner = proc THEN W.pending[db].tables ELSE W.psel[db]

\* another process holds the write lock of db
Locked(W, proc, db) == W.pending[db].owner \notin {0, proc}

\* an INSERT of proc: it opens a transaction, or goes on in the open one
WriteMain(W, proc, db, T) ==
    [W EXCEPT !.pending[db] = [owner |-> proc, tables |-> T]]

\* a CREATE TABLE of proc: part of its open transaction, or committed at
\* once
DdlMain(W, proc, db, T) ==
    IF W.pending[db].owner = proc
    THEN [W EXCEPT !.pending[db].tables = T]
    ELSE [W EXCEPT !.psel[db] = T]

\* self._conn.commit()
Commit(W, proc, db) ==
    IF W.pending[db].owner = proc
    THEN [W EXCEPT !.psel[db] = W.pending[db].tables,
                   !.pending[db] = NoPending]
    ELSE W

\* a function with one more entry
With(f, k, v) == [x \in DOMAIN f \cup {k} |-> IF x = k THEN v ELSE f[x]]

\* a function without the entry k
Without(f, k) == [x \in DOMAIN f \ {k} |-> f[x]]

\* the Selection object id of process proc on db: persistent with a name,
\* or transient with the serial number of make_unique_name
PersistentObject(id, proc, db, name) ==
    [id |-> id, proc |-> proc, db |-> db, persistent |-> TRUE,
     name |-> name, serial |-> 0]

TransientObject(id, proc, db, serial) ==
    [id |-> id, proc |-> proc, db |-> db, persistent |-> FALSE,
     name |-> <<>>, serial |-> serial]

Constructed(W, exc) == [W |-> W, exc |-> exc]

\* lines 78-96 for a persistent selection: CREATE TABLE IF NOT EXISTS.
\* When the statement fails __del__ runs on the half-made object and
\* commits.
InitPersistent(W, id, proc, db, name) ==
    IF ~SqlParses(name) THEN Constructed(Commit(W, proc, db), "OperationalError")
    ELSE IF name \in DOMAIN View(W, proc, db)
    THEN Constructed(
            [W EXCEPT !.alive = @ \cup {PersistentObject(id, proc, db, name)}],
            "none")
    ELSE IF Locked(W, proc, db)
    THEN Constructed(W, "OperationalError")
    ELSE Constructed(
            [DdlMain(W, proc, db, With(View(W, proc, db), name, EmptyFn))
                EXCEPT !.alive = @ \cup {PersistentObject(id, proc, db, name)}],
            "none")

\* lines 76-96 for a transient selection: make_unique_name, CREATE TABLE
InitTransient(W, id, proc, db) ==
    Constructed(
        [W EXCEPT
            !.tsel[proc][db] = With(@, W.icount[proc], EmptyFn),
            !.icount[proc] = @ + 1,
            !.alive = @ \cup {TransientObject(id, proc, db, W.icount[proc])}],
        "none")

\* Selection.__init__(database, persistent) in process proc
Selection_init(W, id, proc, database, persistent) ==
    IF database = "None" /\ persistent.given
    THEN Constructed(W, "Exception")
    ELSE IF persistent.given /\ ~NameMatches(persistent.name)
    THEN Constructed(W, "Exception")
    ELSE IF persistent.given
    THEN InitPersistent(W, id, proc, get_database(database), persistent.name)
    ELSE InitTransient(W, id, proc, get_database(database))

\* INSERT OR IGNORE INTO <file_states>: the table with path added
AddState(table, path, state) ==
    IF path \in DOMAIN table THEN table ELSE With(table, path, state)

\* Selection.add([path], state) on the object o: the INSERT into files
\* opens a transaction on the database also for a transient selection
NamedSelection_add(W, o, path, state) ==
    IF Locked(W, o.proc, o.db) THEN Constructed(W, "OperationalError")
    ELSE IF o.persistent
    THEN Constructed(
            WriteMain(W, o.proc, o.db,
                [View(W, o.proc, o.db) EXCEPT
                    ![o.name] = AddState(@, path, state)]),
            "none")
    ELSE Constructed(
            [WriteMain(W, o.proc, o.db, View(W, o.proc, o.db)) EXCEPT
                !.tsel[o.proc][o.db][o.serial] = AddState(@, path, state)],
            "none")

\* Selection.__del__ that drops the table of every selection
DropAlways(W, o) ==
    IF o.persistent
    THEN [DdlMain(W, o.proc, o.db, Without(View(W, o.proc, o.db), o.name))
            EXCEPT !.alive = @ \ {o}]
    ELSE [W EXCEPT !.tsel[o.proc][o.db] = Without(@, o.serial),
                   !.alive = @ \ {o}]

\* Selection.__del__: a transient selection drops its table, a persistent
\* one commits
Selection_del(W, o) ==
    IF o.persistent
    THEN [Commit(W, o.proc, o.db) EXCEPT !.alive = @ \ {o}]
    ELSE [W EXCEPT !.tsel[o.proc][o.db] = Without(@, o.serial),
                   !.alive = @ \ {o}]

\* the files with their states the object o sees
SelectionStates(W, o) ==
    IF o.persistent THEN View(W, o.proc, o.db)[o.name]
    ELSE W.tsel[o.proc][o.db][o.serial]

(* ---------------- io/backends/virtual.py: add_nuts --------------------- *)
(* data maps a path to the nuts registered for it, kept here as the        *)
(* number of nuts per key (file_segment, file_element); data_mtimes maps   *)
(* a path to its counter, 0 standing for a path without entry.             *)

MaxData == 2
MaxAddNuts == 2

\* the keys of the nuts registered: file_segment None (the default of
\* Nut) or 0, file_element 0 or 1
VKeys == {<<NULL, 0>>, <<0, 0>>, <<0, 1>>}

\* the nuts add_nuts is called with
VNuts ==
    {[file_path |-> p, file_segment |-> k[1], file_element |-> k[2]] :
        p \in Paths, k \in VKeys}

VCalls == UNION {[1..n -> VNuts] : n \in 1..MaxAddNuts}

VKey(nut) == <<nut.file_segment, nut.file_element>>

\* data = defaultdict(list): no nut for any path
NoData == [p \in Paths |-> [k \in VKeys |-> 0]]

\* lines 30-32: data[nut.file_path].append(nut) for every nut
RECURSIVE AppendNuts(_, _)
AppendNuts(dat, nutlist) ==
    IF nutlist = <<>> THEN dat
    ELSE AppendNuts(
            [dat EXCEPT ![Head(nutlist).file_path][VKey(Head(nutlist))] = @ + 1],
            Tail(nutlist))

\* file_paths: the set of the paths of the call
CallPaths(nutlist) == {nutlist[i].file_path : i \in 1..Len(nutlist)}

\* the keys a path holds
KeysOf(dat, path) == {k \in VKeys : dat[path][k] > 0}

\* lines 35-36: data[file_path].sort(key=...) raises TypeError: the list
\* holds keys with and without file_segment, whose tuples Python 3 cannot
\* order
SortRaises(dat, path) ==
    \E k1 \in KeysOf(dat, path), k2 \in KeysOf(dat, path) :
        k1[1] = NULL /\ k2[1] # NULL

\* lines 37-43: a key occurs twice in the sorted list
KeyTwice(dat, path) == \E k \in VKeys : dat[path][k] > 1

Registered(dat, mtimes, exc) ==
    [data |-> dat, data_mtimes |-> mtimes, exc |-> exc]

\* lines 34-46: the loop over file_paths, in the order Python iterates the
\* set
RECURSIVE CheckPaths(_, _, _)
CheckPaths(dat, mtimes, order) ==
    IF order = <<>> THEN Registered(dat, mtimes, "none")
    ELSE IF SortRaises(dat, Head(order))
    THEN Registered(dat, mtimes, "TypeError")
    ELSE IF KeyTwice(dat, Head(order))
    THEN Registered(dat, mtimes, "UniqueKeyRequired")
    ELSE CheckPaths(dat, [mtimes EXCEPT ![Head(order)] = @ + 1], Tail(order))

\* add_nuts(nuts), file_paths iterated in the given order
add_nuts(dat, mtimes, nutlist, order) ==
    CheckPaths(AppendNuts(dat, nutlist), mtimes, order)

(* ------------------- base.py: make_unique_name ------------------------- *)
(* The threads of one process call make_unique_name. A thread is at        *)
(*   idle      outside the function                                        *)
(*   held      inside "with g_lock", the lock acquired                     *)
(*   named     name = '%i_%i' % (os.getpid(), g_icount) evaluated          *)
(*   loaded    g_icount += 1 has read g_icount                             *)
(*   stored    g_icount += 1 has written g_icount                          *)
(*   released  the with block left, the lock released                      *)
(* and returns its name from released. A character is its ASCII code.      *)

NThreads == 2         \* threads of the process that make names
MaxCalls == 2         \* calls of make_unique_name by one thread

Threads == 1..NThreads
NoThread == 0

\* the process ids the process may have
Pids == {1, 11}

\* '%i' % n for n >= 0: the decimal digits, as characters
RECURSIVE FormatInt(_)
FormatInt(n) ==
    IF n < 10 THEN <<48 + n>> ELSE Append(FormatInt(n \div 10), 48 + (n % 10))

\* '%i_%i' % (pid, count)
FormatName(pid, count) == FormatInt(pid) \o <<95>> \o FormatInt(count)

\* a lock any thread passes
LockIgnored(holder) == TRUE

\* threading.Lock.acquire: blocks while another thread holds the lock
LockFree(holder) == holder = NoThread

(* ------------------------- the state machine --------------------------- *)

VARIABLES
    files,              \* table files
    nuts,               \* table nuts
    kind_codes,         \* table kind_codes
    kind_codes_count,   \* table kind_codes_count
    file_states,        \* per selection: table <name>_file_states
    sq_nuts,            \* per squirrel: table <name>_nuts
    sq_count,           \* per squirrel: table <name>_kind_codes_count
    disk,               \* the files on disk, as the backends see them
    probe,              \* the path detect_format is called with
    detected,           \* what detect_format has returned or raised
    psel,               \* per database: the committed tables of persistent
                        \* selections
    pending,            \* per database: the open write transaction
    tsel,               \* per process and database: the tables of
                        \* transient selections
    alive,              \* the Selection objects of all processes
    icount,             \* per process: g_icount
    data,               \* virtual backend: the nuts registered per path
    data_mtimes,        \* virtual backend: the counter of each path
    naming,             \* the threads of one process in make_unique_name
    gen,                \* the iload generator a consumer is drawing from
    conn                \* the connection of the database: its transaction

vars == <<files, nuts, kind_codes, kind_codes_count, file_states, sq_nuts,
          sq_count, disk, probe, detected, psel, pending, tsel, alive,
          icount, data, data_mtimes, naming, gen, conn>>

\* the named selections of all processes
World ==
    [psel |-> psel, pending |-> pending, tsel |-> tsel, alive |-> alive,
     icount |-> icount]

SetWorld(W) ==
    /\ psel' = W.psel
    /\ pending' = W.pending
    /\ tsel' = W.tsel
    /\ alive' = W.alive
    /\ icount' = W.icount

\* no selection has been made: module level g_icount = 0
InitWorld ==
    /\ psel = [db \in DbNames |-> EmptyFn]
    /\ pending = [db \in DbNames |-> NoPending]
    /\ tsel = [proc \in Procs |-> [db \in DbNames |-> EmptyFn]]
    /\ alive = {}
    /\ icount = [proc \in Procs |-> 0]

\* detect_format has not been called
InitProbe ==
    /\ probe = [virtual |-> TRUE, opens |-> FALSE, data |-> EmptyData]
    /\ detected = Pending

\* virtual.py 24-25: data = defaultdict(list), data_mtimes = {}
InitVirtual ==
    /\ data = NoData
    /\ data_mtimes = [p \in Paths |-> 0]

\* base.py 33-34: g_icount = 0, g_lock = threading.Lock(); no thread has
\* called make_unique_name
NamingOf(pid) ==
    [pid |-> pid, g_lock |-> NoThread, g_icount |-> 0,
     pc |-> [t \in Threads |-> "idle"],
     name |-> [t \in Threads |-> <<>>],
     loaded |-> [t \in Threads |-> 0],
     calls |-> [t \in Threads |-> 0],
     returned |-> <<>>]

InitNaming == naming = NamingOf(Min(Pids))

\* the tables of the database file
MainTables(D) ==
    [files |-> D.files, nuts |-> D.nuts, kind_codes |-> D.kind_codes,
     kind_codes_count |-> D.kind_codes_count]

\* Database.__init__: _initialize_db has committed, _need_commit = False
InitConn ==
    conn = [need_commit |-> FALSE, in_transaction |-> FALSE,
            committed |-> MainTables(EmptyStore), returned |-> "none",
            dropped |-> {}]

\* no iload generator has been made
InitGen == gen = NoGenerator("none")

\* the state outside the database and the files on disk
others == <<probe, detected, psel, pending, tsel, alive, icount, data,
            data_mtimes, naming, gen, conn>>

\* nothing has happened outside the database
InitOthers ==
    InitProbe /\ InitWorld /\ InitVirtual /\ InitNaming /\ InitGen
    /\ InitConn

Store ==
    [files |-> files, nuts |-> nuts, kind_codes |-> kind_codes,
     kind_codes_count |-> kind_codes_count, file_states |-> file_states,
     sq_nuts |-> sq_nuts, sq_count |-> sq_count]

SetStore(D) ==
    /\ files' = D.files
    /\ nuts' = D.nuts
    /\ kind_codes' = D.kind_codes
    /\ kind_codes_count' = D.kind_codes_count
    /\ file_states' = D.file_states
    /\ sq_nuts' = D.sq_nuts
    /\ sq_count' = D.sq_count

\* the rowids stay within the bounds of the model
Bounded(D) ==
    /\ \A f \in DOMAIN D.files : f <= MaxFileId
    /\ \A n \in D.nuts : n.nut_id <= MaxNutId

\* the lists of paths a call is given, over the paths S
PathLists(S) == {<<p>> : p \in S} \cup {<<p, q>> : p \in S, q \in S}

\* kinds = None (written {}) or a list of kinds
KindsArgs == {{}, {"waveform"}}

\* the paths two Squirrels work on together
Shared == 1..NShared

Init ==
    /\ files = EmptyStore.files
    /\ nuts = EmptyStore.nuts
    /\ kind_codes = EmptyStore.kind_codes
    /\ kind_codes_count = EmptyStore.kind_codes_count
    /\ file_states = EmptyStore.file_states
    /\ sq_nuts = EmptyStore.sq_nuts
    /\ sq_count = EmptyStore.sq_count
    /\ disk = [p \in Paths |-> [mtime |-> 1, what |-> "ok", cid |-> 1]]
    /\ InitOthers

\* a file is written, replaced, damaged or deleted on disk
Touch(p, d) ==
    /\ d.mtime = disk[p].mtime + 1
    /\ disk' = [disk EXCEPT ![p] = d]
    /\ UNCHANGED <<files, nuts, kind_codes, kind_codes_count, file_states,
                   sq_nuts, sq_count>>
    /\ UNCHANGED others

\* a file is deleted: the path keeps the time of its last write, so that
\* a file written again later gets a later mtime
Delete(p) ==
    /\ disk[p].what # "gone"
    /\ disk' = [disk EXCEPT ![p] = [mtime |-> @.mtime, what |-> "gone",
                                     cid |-> 0]]
    /\ UNCHANGED <<files, nuts, kind_codes, kind_codes_count, file_states,
                   sq_nuts, sq_count>>
    /\ UNCHANGED others

\* the store a call leaves; the files on disk are not written
Leaves(D) ==
    /\ Bounded(D)
    /\ SetStore(D)
    /\ UNCHANGED disk
    /\ UNCHANGED others

\* Squirrel.add(paths, kinds=kinds, check=check)
SqAdd(s, paths, kinds, check) ==
    /\ Leaves(Squirrel_add(Store, disk, s, paths, kinds, "detect", check).D)

\* Squirrel.remove(paths)
SqRemove(s, paths) ==
    /\ Leaves(Squirrel_remove(Store, s, paths))

\* the nuts a plain iload(path) reads from disk
LoadedNuts(p) ==
    AttachFile(BackendNuts(disk, p), p, detect_format(disk, p),
               get_stats(disk, p))

\* Database.dig(nuts) with the nuts a plain iload(path) has read from disk
DbDig(p) ==
    /\ disk[p].what = "ok"
    /\ \E forder \in Enumerations(DigFileSet(LoadedNuts(p))),
          korder \in Enumerations(DigKindCodesSet(LoadedNuts(p))) :
          Leaves(Database_dig(Store, LoadedNuts(p), forder, korder).D)

\* Database.reset(path)
DbReset(p) ==
    /\ Leaves(Database_reset(Store, p))

\* Database.remove(path)
DbRemove(p) ==
    /\ Leaves(Database_remove(Store, p))

\* for nut in iload(paths, database=db, check=check,
\*                  skip_unchanged=skip, content=...): pass
Iload(paths, check, skip, content_empty) ==
    /\ Leaves(IloadPaths(Store, disk, paths, check, skip, content_empty,
                      "detect").D)

\* Selection.add(paths) on the selection of s, nothing loaded
SelAdd(s, paths) ==
    /\ Leaves(StoreOfAdd(Selection_add(Store, file_states[s], paths, 0), s))

\* the database calls over the paths S
DbCalls(S) ==
    \/ \E p \in S : DbDig(p)
    \/ \E p \in S : DbReset(p)
    \/ \E p \in S : DbRemove(p)

\* the plain iload calls over the paths S
IloadCalls(S) ==
    \E paths \in PathLists(S), check \in BOOLEAN, skip \in BOOLEAN,
       content_empty \in BOOLEAN : Iload(paths, check, skip, content_empty)

\* the files S change on disk
DiskChanges(S) == \E p \in S, d \in DiskFiles : Touch(p, d)

\* one Squirrel and plain iload calls, over files that change on disk
Next ==
    \/ DiskChanges(Paths)
    \/ \E paths \in PathLists(Paths), kinds \in KindsArgs, check \in BOOLEAN :
          SqAdd(1, paths, kinds, check)
    \/ \E paths \in PathLists(Paths) : SqRemove(1, paths)
    \/ IloadCalls(Paths)

Spec == Init /\ [][Next]_vars

\* the database by itself, one selection, files that change on disk
NextDb ==
    \/ DiskChanges(Paths)
    \/ DbCalls(Paths)
    \/ \E paths \in PathLists(Shared) : SelAdd(1, paths)
    \/ IloadCalls(Paths)

SpecDb == Init /\ [][NextDb]_vars

\* the Squirrels share the database and the files Shared
NextShared ==
    \/ DiskChanges(Shared)
    \/ \E p \in Shared : Delete(p)
    \/ \E s \in Squirrels, paths \in PathLists(Shared), check \in BOOLEAN :
          SqAdd(s, paths, {}, check)
    \/ \E s \in Squirrels, paths \in PathLists(Shared) : SqRemove(s, paths)
    \/ DbCalls(Shared)
    \/ IloadCalls(Shared)

SpecShared == Init /\ [][NextShared]_vars

\* files that do not change on disk, of two contents
InitFrame ==
    /\ files = EmptyStore.files
    /\ nuts = EmptyStore.nuts
    /\ kind_codes = EmptyStore.kind_codes
    /\ kind_codes_count = EmptyStore.kind_codes_count
    /\ file_states = EmptyStore.file_states
    /\ sq_nuts = EmptyStore.sq_nuts
    /\ sq_count = EmptyStore.sq_count
    /\ disk = [p \in Paths |-> [mtime |-> 1, what |-> "ok",
                                 cid |-> ((p - 1) % 2) + 1]]
    /\ InitOthers

\* the Squirrels select among all the paths
NextFrame ==
    \/ \E s \in Squirrels, paths \in PathLists(Paths) :
          SqAdd(s, paths, {}, TRUE)
    \/ \E s \in Squirrels, paths \in PathLists(Paths) : SqRemove(s, paths)
    \/ DbCalls(Paths)

SpecFrame == InitFrame /\ [][NextFrame]_vars

(* --------- undig_span over projections and windows on a grid ---------- *)

\* the seconds at which the nuts of the grid end: around the nuts' starts,
\* around the edge of the second duration class and around the last edge
SpanSeconds ==
    (0 - MaxT..MaxT)
    \cup {tscale_edges[2], tscale_edges[2] + 1,
          tscale_edges[Len(tscale_edges)], tscale_edges[Len(tscale_edges)] + 1}

\* times of the grid, in ticks; the query windows take their ends here
SpanTicks == {sec * TRes + o : sec \in SpanSeconds, o \in 0..TRes - 1}
StartTicks == {sec * TRes + o : sec \in 0 - MaxT..MaxT, o \in 0..TRes - 1}

\* the nuts with element number elem a virtual file may hold
SpanNuts(elem) ==
    {BackendNut(0, elem, "waveform", "STA", t0, t1) :
        t0 \in StartTicks, t1 \in SpanTicks \cup {NULL}}
    \cup {BackendNut(0, elem, "station", "S", NULL, NULL)}

\* the lists of n nuts of one file, the i-th with element number i
RECURSIVE SpanListsOf(_)
SpanListsOf(n) ==
    IF n = 0 THEN {<<>>}
    ELSE {Append(l, x) : l \in SpanListsOf(n - 1), x \in SpanNuts(n)}

SpanLists == UNION {SpanListsOf(n) : n \in 1..MaxSpanNuts}

\* Selection.add and _update_nuts of Squirrel.add for a file _load finds
\* indexed and unchanged
AddIndexed(D, s, path) ==
    Squirrel_update_nuts(
        StoreOfAdd(Selection_add(D, D.file_states[s], <<path>>, 0), s),
        s, {}).D

\* database.dig(nuts) for the nuts of one virtual file, then Squirrel.add
\* of that file
SpanIngest(nutlist) ==
    /\ DOMAIN files = {}
    /\ Leaves(AddIndexed(
            Database_dig(Store,
                         AttachFile(nutlist, 1, "virtual", <<1, 0>>),
                         << <<1, "virtual", 1, 0>> >>,
                         CHOOSE q \in Enumerations(DigKindCodesSet(nutlist)) :
                             TRUE).D,
            1, 1))

NextSpan == \E nutlist \in SpanLists : SpanIngest(nutlist)

SpecSpan == Init /\ [][NextSpan]_vars

(* --------------- plain Selections and iload over them ------------------ *)

\* the states Selection.add is called with: 0 (its default) and 1 (as
\* Database.new_selection is called by iload)
AddStateArgs == {0, 1}

\* Selection.add(paths, state=state) on the selection s
SelAddState(s, paths, state) ==
    /\ Leaves(StoreOfAdd(Selection_add(Store, file_states[s], paths, state),
                         s))

\* Selection.remove(paths) on the selection s
SelRemove(s, paths) ==
    /\ Leaves(DeleteStates(Store, s,
                           RemovedIds(Store, file_states[s], paths)))

\* iload(selection, check=check, skip_unchanged=skip, content=...)
IloadSel(s, check, skip, content_empty) ==
    /\ Leaves(IloadSelection(Store, disk, s, check, skip, content_empty,
                             "detect").D)

\* one Selection and plain iload calls, over files that change on disk
NextSel ==
    \/ DiskChanges(Paths)
    \/ \E paths \in PathLists(Paths), state \in AddStateArgs :
          SelAddState(1, paths, state)
    \/ \E paths \in PathLists(Paths) : SelRemove(1, paths)
    \/ \E check \in BOOLEAN, skip \in BOOLEAN, content_empty \in BOOLEAN :
          IloadSel(1, check, skip, content_empty)
    \/ IloadCalls(Paths)

SpecSel == Init /\ [][NextSel]_vars

(* ------------------- detect_format on its own -------------------------- *)

\* the database and the disk stay as they are
StoreIdle ==
    UNCHANGED <<files, nuts, kind_codes, kind_codes_count, file_states,
                sq_nuts, sq_count, disk>>

InitDetect ==
    /\ files = EmptyStore.files
    /\ nuts = EmptyStore.nuts
    /\ kind_codes = EmptyStore.kind_codes
    /\ kind_codes_count = EmptyStore.kind_codes_count
    /\ file_states = EmptyStore.file_states
    /\ sq_nuts = EmptyStore.sq_nuts
    /\ sq_count = EmptyStore.sq_count
    /\ disk = [p \in Paths |-> [mtime |-> 1, what |-> "ok", cid |-> 1]]
    /\ probe \in Probes
    /\ detected = Pending
    /\ InitWorld
    /\ InitVirtual
    /\ InitNaming
    /\ InitGen
    /\ InitConn

\* detect_format(path)
Detect ==
    /\ ~detected.done
    /\ detected' = DetectFormat(probe)
    /\ UNCHANGED <<probe, psel, pending, tsel, alive, icount, data,
                   data_mtimes, naming, gen, conn>>
    /\ StoreIdle

NextDetect == Detect

SpecDetect == InitDetect /\ [][NextDetect]_vars

(* ----------------- the life of named selections ------------------------ *)

\* the names the processes give to their persistent selections: a valid
\* one, an invalid one, or none (a transient selection)
MachinePersistent ==
    {[given |-> FALSE, name |-> <<>>],
     [given |-> TRUE, name |-> <<"a">>],
     [given |-> TRUE, name |-> <<"1">>]}

\* the processes name the default database by None
MachineDbArgs == {"None", "other_path"}

\* the ids Selection objects not yet in use
FreeIds == (1..MaxObjects) \ {o.id : o \in alive}

\* Selection(database, persistent) in process proc
Construct(proc, database, persistent) ==
    /\ FreeIds # {}
    /\ persistent.given \/ icount[proc] < MaxICount
    /\ SetWorld(Selection_init(World, Min(FreeIds), proc, database,
                               persistent).W)
    /\ UNCHANGED <<probe, detected, data, data_mtimes, naming, gen, conn>>
    /\ StoreIdle

\* the ids of the Selection objects
AliveIds == {o.id : o \in alive}

\* the Selection object with the id
ObjectOf(id) == CHOOSE o \in alive : o.id = id

\* Selection.add([path], state=state) on the object id
AddTo(id, path, state) ==
    /\ id \in AliveIds
    /\ SetWorld(NamedSelection_add(World, ObjectOf(id), path, state).W)
    /\ UNCHANGED <<probe, detected, data, data_mtimes, naming, gen, conn>>
    /\ StoreIdle

\* the object id goes away: Selection.__del__
Destroy(id) ==
    /\ id \in AliveIds
    /\ SetWorld(Selection_del(World, ObjectOf(id)))
    /\ UNCHANGED <<probe, detected, data, data_mtimes, naming, gen, conn>>
    /\ StoreIdle

\* Database.commit() in process proc
CommitBy(proc, db) ==
    /\ pending[db].owner = proc
    /\ SetWorld(Commit(World, proc, db))
    /\ UNCHANGED <<probe, detected, data, data_mtimes, naming, gen, conn>>
    /\ StoreIdle

NextLife ==
    \/ \E proc \in Procs, database \in MachineDbArgs,
          persistent \in MachinePersistent :
            Construct(proc, database, persistent)
    \/ \E id \in 1..MaxObjects, path \in Shared, state \in AddStateArgs :
            AddTo(id, path, state)
    \/ \E id \in 1..MaxObjects : Destroy(id)
    \/ \E proc \in Procs, db \in DbNames : CommitBy(proc, db)

SpecLife == Init /\ [][NextLife]_vars

(* --------------- the virtual backend on its own ------------------------ *)

\* virtual.add_nuts(nuts)
AddNuts(nutlist, order) ==
    /\ \A p \in Paths, k \in VKeys : AppendNuts(data, nutlist)[p][k] <= MaxData
    /\ data' = add_nuts(data, data_mtimes, nutlist, order).data
    /\ data_mtimes' = add_nuts(data, data_mtimes, nutlist, order).data_mtimes
    /\ UNCHANGED <<probe, detected, psel, pending, tsel, alive, icount,
                   naming, gen, conn>>
    /\ StoreIdle

NextVirtual ==
    \E nutlist \in VCalls :
        \E order \in Enumerations(CallPaths(nutlist)) : AddNuts(nutlist, order)

SpecVirtual == Init /\ [][NextVirtual]_vars

(* --------------- threads that call make_unique_name -------------------- *)

\* nothing but naming changes
NamingOnly ==
    /\ UNCHANGED <<probe, detected, psel, pending, tsel, alive, icount, data,
                   data_mtimes, gen, conn>>
    /\ StoreIdle

\* the process runs under any of the process ids
InitNames ==
    /\ files = EmptyStore.files
    /\ nuts = EmptyStore.nuts
    /\ kind_codes = EmptyStore.kind_codes
    /\ kind_codes_count = EmptyStore.kind_codes_count
    /\ file_states = EmptyStore.file_states
    /\ sq_nuts = EmptyStore.sq_nuts
    /\ sq_count = EmptyStore.sq_count
    /\ disk = [p \in Paths |-> [mtime |-> 1, what |-> "ok", cid |-> 1]]
    /\ InitProbe
    /\ InitWorld
    /\ InitVirtual
    /\ InitGen
    /\ InitConn
    /\ \E pid \in Pids : naming = NamingOf(pid)

\* with g_lock: (entered)
Acquire(t) ==
    /\ naming.pc[t] = "idle"
    /\ naming.calls[t] < MaxCalls
    /\ LockFree(naming.g_lock)
    /\ naming' = [naming EXCEPT !.pc[t] = "held", !.g_lock = t]
    /\ NamingOnly

\* name = '%i_%i' % (os.getpid(), g_icount)
MakeName(t) ==
    /\ naming.pc[t] = "held"
    /\ naming' = [naming EXCEPT
                     !.pc[t] = "named",
                     !.name[t] = FormatName(naming.pid, naming.g_icount)]
    /\ NamingOnly

\* g_icount += 1: the global is read
LoadCount(t) ==
    /\ naming.pc[t] = "named"
    /\ naming' = [naming EXCEPT !.pc[t] = "loaded",
                                !.loaded[t] = naming.g_icount]
    /\ NamingOnly

\* g_icount += 1: the sum is written
StoreCount(t) ==
    /\ naming.pc[t] = "loaded"
    /\ naming' = [naming EXCEPT !.pc[t] = "stored",
                                !.g_icount = naming.loaded[t] + 1]
    /\ NamingOnly

\* with g_lock: (left)
Release(t) ==
    /\ naming.pc[t] = "stored"
    /\ naming' = [naming EXCEPT !.pc[t] = "released", !.g_lock = NoThread]
    /\ NamingOnly

\* return name
Return(t) ==
    /\ naming.pc[t] = "released"
    /\ naming' = [naming EXCEPT
                     !.pc[t] = "idle",
                     !.calls[t] = @ + 1,
                     !.returned = Append(@, naming.name[t])]
    /\ NamingOnly

NextNames ==
    \/ \E t \in Threads : Acquire(t)
    \/ \E t \in Threads : MakeName(t)
    \/ \E t \in Threads : LoadCount(t)
    \/ \E t \in Threads : StoreCount(t)
    \/ \E t \in Threads : Release(t)
    \/ \E t \in Threads : Return(t)

SpecNames == InitNames /\ [][NextNames]_vars

(* ------------- Squirrels that always add with the same kinds ----------- *)

\* the kinds argument each Squirrel passes to every add
KindsOf(s) == IF s = 1 THEN {"waveform"} ELSE {"station"}

\* Squirrel.add(paths, kinds=KindsOf(s), check=check)
SqAddKinds(s, paths, check) ==
    /\ Leaves(Squirrel_add(Store, disk, s, paths, KindsOf(s), "detect",
                           check).D)

NextKinds ==
    \/ DiskChanges(Paths)
    \/ \E s \in Squirrels, paths \in PathLists(Paths), check \in BOOLEAN :
          SqAddKinds(s, paths, check)
    \/ \E s \in Squirrels, paths \in PathLists(Paths) : SqRemove(s, paths)

SpecKinds == Init /\ [][NextKinds]_vars

(* ------------- a consumer that may abandon the iteration --------------- *)

\* nothing but the generator and the database changes
GenStep(D) ==
    /\ Bounded(D)
    /\ SetStore(D)
    /\ UNCHANGED <<disk, probe, detected, psel, pending, tsel, alive, icount,
                   data, data_mtimes, naming, conn>>

\* a file changes on disk while no generator is open
TouchIdle(p, d) ==
    /\ gen.pc = "idle"
    /\ Touch(p, d)

\* it = iload(paths, database=db, check=check, content=...); next(it) up to
\* the head of the loop
Open(paths, check, content_empty) ==
    /\ gen.pc = "idle"
    /\ gen' = NewGenerator(
                 undig_grouped(Selection_add(Store, EmptyFn, paths, 1).D,
                               Selection_add(Store, EmptyFn, paths, 1).fs,
                               FALSE),
                 check, content_empty)
    /\ GenStep(Selection_add(Store, EmptyFn, paths, 1).D)

\* a file is served from the database or fails before it is read
PassFile ==
    /\ gen.pc = "next"
    /\ gen.groups # <<>>
    /\ ~EntersRead(BeforeRead(gen, disk))
    /\ gen' = IF FinishFile(Store, BeforeRead(gen, disk), TRUE,
                            Head(gen.groups)[1]).exc # "none"
              THEN NoGenerator("raised")
              ELSE [gen EXCEPT !.groups = Tail(gen.groups)]
    /\ GenStep(FinishFile(Store, BeforeRead(gen, disk), TRUE,
                          Head(gen.groups)[1]).D)

\* the backend's iload is entered for the file at the head of the loop
EnterFile ==
    /\ gen.pc = "next"
    /\ gen.groups # <<>>
    /\ EntersRead(BeforeRead(gen, disk))
    /\ gen' = StartReading(gen, BeforeRead(gen, disk))
    /\ GenStep(Store)

\* the backend yields a nut, iload yields it on: lines 215-224
YieldNut ==
    /\ gen.pc = "reading"
    /\ gen.todo # <<>>
    /\ gen' = [gen EXCEPT !.todo = Tail(gen.todo),
                          !.read = Append(gen.read, Head(gen.todo))]
    /\ GenStep(AfterYield(Store, Append(gen.read, Head(gen.todo))))

\* the backend's iteration ends, or raises FileLoadError: lines 226-239
EndOfFile ==
    /\ gen.pc = "reading"
    /\ gen.todo = <<>>
    /\ gen' = IF FinishFile(Store, gen.T, TRUE, gen.path).exc # "none"
              THEN NoGenerator("raised")
              ELSE [gen EXCEPT !.pc = "next",
                               !.failed = gen.T.exc = "FileLoadError"]
    /\ GenStep(FinishFile(Store, gen.T, TRUE, gen.path).D)

\* the loop is over: lines 241-246
Exhaust ==
    /\ gen.pc = "next"
    /\ gen.groups = <<>>
    /\ gen' = [NoGenerator("finished") EXCEPT !.path = gen.path,
                                              !.read = gen.read,
                                              !.failed = gen.failed]
    /\ GenStep(Store)

\* the consumer drops the generator while it is suspended at a yield of
\* the backend's loop: GeneratorExit passes the except FileLoadError
Abandon ==
    /\ gen.pc = "reading"
    /\ gen.read # <<>>
    /\ gen' = [NoGenerator("abandoned") EXCEPT !.path = gen.path,
                                               !.indexed = gen.indexed,
                                               !.read = gen.read]
    /\ GenStep(Store)

NextCancel ==
    \/ \E p \in Paths, d \in DiskFiles : TouchIdle(p, d)
    \/ \E paths \in PathLists(Paths), check \in BOOLEAN,
          content_empty \in BOOLEAN : Open(paths, check, content_empty)
    \/ PassFile
    \/ EnterFile
    \/ YieldNut
    \/ EndOfFile
    \/ Exhaust
    \/ Abandon

SpecCancel == Init /\ [][NextCancel]_vars

(* ------------- base.py: Database.commit and the transaction ------------ *)
(* The connection is opened by sqlite3.connect with the default isolation *)
(* level: an INSERT, UPDATE or DELETE opens a transaction if none is open, *)
(* and only self._conn.commit() ends it. conn holds                        *)
(*   need_commit     Database._need_commit                                 *)
(*   in_transaction  a transaction is open                                 *)
(*   committed       the tables of the database file as committed          *)
(*   returned        the call that has returned last                       *)
(*   dropped         the Squirrels whose tables have been dropped          *)

\* a statement that writes has been executed
Written(c, call) ==
    [c EXCEPT !.in_transaction = TRUE, !.returned = call]

\* line 1022 of Database.dig: self._need_commit = True
Dug(c) == [c EXCEPT !.need_commit = TRUE]

\* Database.commit: if self._need_commit: self._conn.commit()
Database_commit(c, D) ==
    IF c.need_commit
    THEN [c EXCEPT !.need_commit = FALSE, !.in_transaction = FALSE,
                   !.committed = MainTables(D), !.returned = "commit"]
    ELSE [c EXCEPT !.returned = "commit"]

\* the run r of iload has called Database.dig with a list that is not empty
RunDug(r) ==
    \E i \in 1..Len(r.yielded) : r.yielded[i].file_path \in r.digs

\* the connection after the run r of iload(paths, database, commit=commit):
\* the INSERTs of the temporary selection, the digs and resets of the loop,
\* lines 241-243
AfterIload(c, r, commit) ==
    IF r.exc # "none"
    THEN Written(IF RunDug(r) THEN Dug(c) ELSE c, "raised")
    ELSE IF commit
    THEN [Database_commit(Written(IF RunDug(r) THEN Dug(c) ELSE c, "iload"),
                          r.D)
            EXCEPT !.returned = "iload"]
    ELSE Written(IF RunDug(r) THEN Dug(c) ELSE c, "iload_no_commit")

\* a call returns with the tables D and the connection c
Returns(D, c) ==
    /\ Bounded(D)
    /\ SetStore(D)
    /\ conn' = c
    /\ UNCHANGED <<disk, probe, detected, psel, pending, tsel, alive, icount,
                   data, data_mtimes, naming, gen>>

\* a file changes on disk
TxTouch(p, d) ==
    /\ Touch(p, d)

\* Database.dig(nuts) with the nuts a plain iload(path) has read from disk
TxDig(p) ==
    /\ disk[p].what = "ok"
    /\ LoadedNuts(p) # <<>>
    /\ \E forder \in Enumerations(DigFileSet(LoadedNuts(p))),
          korder \in Enumerations(DigKindCodesSet(LoadedNuts(p))) :
          Returns(Database_dig(Store, LoadedNuts(p), forder, korder).D,
                  Written(Dug(conn), "dig"))

\* Database.reset(path)
TxReset(p) ==
    /\ Returns(Database_reset(Store, p), Written(conn, "reset"))

\* Database.remove(path)
TxRemove(p) ==
    /\ Returns(Database_remove(Store, p), Written(conn, "remove"))

\* Selection.add(paths) on the selection of s
TxSelAdd(s, paths) ==
    /\ Returns(StoreOfAdd(Selection_add(Store, file_states[s], paths, 0), s),
               Written(conn, "add"))

\* Database.commit()
TxCommit ==
    /\ Returns(Store, Database_commit(conn, Store))

\* for nut in iload(paths, database=db, check=check, commit=commit): pass
TxIload(paths, check, commit) ==
    /\ Returns(IloadPaths(Store, disk, paths, check, FALSE, FALSE,
                          "detect").D,
               AfterIload(conn,
                          IloadPaths(Store, disk, paths, check, FALSE, FALSE,
                                     "detect"),
                          commit))

NextCommit ==
    \/ \E p \in Shared, d \in DiskFiles : TxTouch(p, d)
    \/ \E p \in Shared : TxDig(p)
    \/ \E p \in Shared : TxReset(p)
    \/ \E p \in Shared : TxRemove(p)
    \/ \E paths \in PathLists(Shared) : TxSelAdd(1, paths)
    \/ TxCommit
    \/ \E paths \in PathLists(Shared), check \in BOOLEAN, commit \in BOOLEAN :
          TxIload(paths, check, commit)

SpecCommit == Init /\ [][NextCommit]_vars

(* ------------- ingest restricted to a segment -------------------------- *)

\* for nut in iload(path, segment=segment, database=db, check=check): pass
IloadSeg(p, segment, check) ==
    /\ Leaves(IloadSegment(Store, disk, p, segment, check).D)

\* for nut in iload(paths, database=db, check=check): pass
IloadWhole(paths, check) ==
    /\ Leaves(IloadPaths(Store, disk, paths, check, FALSE, FALSE,
                         "detect").D)

NextSegment ==
    \/ DiskChanges(Paths)
    \/ \E p \in Paths, segment \in SegmentArgs, check \in BOOLEAN :
          IloadSeg(p, segment, check)
    \/ \E paths \in PathLists(Paths), check \in BOOLEAN :
          IloadWhole(paths, check)

SpecSegment == Init /\ [][NextSegment]_vars

(* ------------- Database.dig of the nuts of several files --------------- *)

\* the nuts of a and of b in turn
RECURSIVE Interleave(_, _)
Interleave(a, b) ==
    IF a = <<>> THEN b ELSE <<Head(a)>> \o Interleave(b, Tail(a))

\* Database.dig(nuts) with the nuts read from the files p and q, as they
\* come when nuts of several files are collected in one list
DbDigTwo(p, q) ==
    /\ p # q
    /\ disk[p].what = "ok" /\ disk[q].what = "ok"
    /\ \E forder \in Enumerations(
                        DigFileSet(Interleave(LoadedNuts(p), LoadedNuts(q)))),
          korder \in Enumerations(
                        DigKindCodesSet(Interleave(LoadedNuts(p),
                                                   LoadedNuts(q)))) :
          /\ Database_dig(Store, Interleave(LoadedNuts(p), LoadedNuts(q)),
                          forder, korder).exc = "none"
          /\ Leaves(Database_dig(Store,
                                 Interleave(LoadedNuts(p), LoadedNuts(q)),
                                 forder, korder).D)

NextAll ==
    \/ DiskChanges(Paths)
    \/ DbCalls(Paths)
    \/ \E p \in Paths, q \in Paths : DbDigTwo(p, q)

SpecAll == Init /\ [][NextAll]_vars

(* ------------- two Squirrels that add files being rewritten ------------ *)

\* a file is written anew on disk
Rewrite(p, d) ==
    /\ d.what = "ok"
    /\ Touch(p, d)

\* Squirrel.add([p], check=True) on the Squirrel s (kinds=None)
SqAddChecked(s, p) ==
    /\ Leaves(Squirrel_add(Store, disk, s, <<p>>, {}, "detect", TRUE).D)

NextTwo ==
    \/ \E p \in Paths, d \in DiskFiles : Rewrite(p, d)
    \/ \E s \in Squirrels, p \in Paths : SqAddChecked(s, p)

SpecTwo == Init /\ [][NextTwo]_vars

(* ------------- base.py: Squirrel._delete and what it leaves ------------ *)
(* The tables and triggers of a transient Squirrel live in the temp       *)
(* schema of the connection. DROP TABLE takes along the triggers ON the    *)
(* table dropped; <nuts>_delete_nuts and <nuts>_delete_nuts2 are triggers  *)
(* ON main.files and stay.                                                 *)

\* Squirrel._delete, Selection._delete: DROP TABLE <nuts>,
\* <kind_codes_count>, <file_states>
Squirrel_delete(D, s) ==
    [D EXCEPT !.sq_nuts[s] = {},
              !.sq_count[s] = EmptyStore.sq_count[s],
              !.file_states[s] = EmptyFn]

\* an UPDATE or DELETE of the files row of path that would leave E: the
\* BEFORE triggers of every Squirrel ever made on the connection run for
\* the row, and DELETE FROM <nuts> of a dropped table fails the statement
FilesRowStatement(c, D, path, E) ==
    IF FileIdOf(D, path) = NULL THEN [D |-> D, exc |-> "none"]
    ELSE IF c.dropped # {} THEN [D |-> D, exc |-> "OperationalError"]
    ELSE [D |-> E, exc |-> "none"]

\* Database.reset(path) on the connection c
Connection_reset(c, D, path) ==
    FilesRowStatement(c, D, path, Database_reset(D, path))

\* Database.remove(path) on the connection c
Connection_remove(c, D, path) ==
    FilesRowStatement(c, D, path, Database_remove(D, path))

\* Database.dig(nuts) on the connection c: the INSERT OR IGNORE INTO files
\* of lines 991-992 is done when the UPDATE files of lines 994-999 fails
Connection_dig(c, D, nutlist, forder, korder) ==
    IF nutlist # <<>> /\ c.dropped # {}
    THEN [D |-> InsertOrIgnoreFiles(D, forder), exc |-> "OperationalError"]
    ELSE Database_dig(D, nutlist, forder, korder)

\* the store when the loop of iload(selection of s, skip_unchanged=True)
\* begins: the paths added, the states flagged
BeforeLoop(D, dk, s, paths, check) ==
    WithStates(
        StoreOfAdd(Selection_add(D, D.file_states[s], paths, 0), s), s,
        Flagged(StoreOfAdd(Selection_add(D, D.file_states[s], paths, 0), s),
                dk,
                Selection_add(D, D.file_states[s], paths, 0).fs, check, TRUE))

\* the run R of a Squirrel.add executes a statement on a files row
TouchesFilesRow(R) == RunDug(R) \/ R.resets # {}

\* Squirrel.add(paths, check=check) of the Squirrel s on the connection c:
\* the first dig or reset of the load raises when a trigger fails
Connection_add(c, D, dk, s, paths, check) ==
    IF c.dropped # {}
       /\ TouchesFilesRow(Squirrel_add(D, dk, s, paths, {}, "detect", check))
    THEN [D |-> BeforeLoop(D, dk, s, paths, check),
          exc |-> "OperationalError"]
    ELSE [D |-> Squirrel_add(D, dk, s, paths, {}, "detect", check).D,
          exc |-> Squirrel_add(D, dk, s, paths, {}, "detect", check).exc]

(* ------------- Squirrels that are destroyed ---------------------------- *)

\* a call on the connection returns, or raises, leaving r.D
ConnReturns(r, call) ==
    Returns(r.D, Written(conn, IF r.exc = "none" THEN call ELSE r.exc))

\* del sq: Selection.__del__ of a transient Squirrel
XDelete(s) ==
    /\ s \notin conn.dropped
    /\ Returns(Squirrel_delete(Store, s),
               [conn EXCEPT !.dropped = @ \cup {s}, !.returned = "del"])

\* Squirrel.add([p], check=check) on a Squirrel that exists
XAdd(s, p, check) ==
    /\ s \notin conn.dropped
    /\ ConnReturns(Connection_add(conn, Store, disk, s, <<p>>, check), "add")

\* Database.dig(nuts) with the nuts a plain iload(path) has read from disk
XDig(p) ==
    /\ disk[p].what = "ok"
    /\ \E forder \in Enumerations(DigFileSet(LoadedNuts(p))),
          korder \in Enumerations(DigKindCodesSet(LoadedNuts(p))) :
          ConnReturns(Connection_dig(conn, Store, LoadedNuts(p), forder,
                                     korder), "dig")

\* Database.reset(path)
XReset(p) ==
    /\ ConnReturns(Connection_reset(conn, Store, p), "reset")

\* Database.remove(path)
XRemove(p) ==
    /\ ConnReturns(Connection_remove(conn, Store, p), "remove")

NextDestroy ==
    \/ \E p \in Shared, d \in DiskFiles : TxTouch(p, d)
    \/ \E s \in Squirrels : XDelete(s)
    \/ \E s \in Squirrels, p \in Shared, check \in BOOLEAN : XAdd(s, p, check)
    \/ \E p \in Shared : XDig(p)
    \/ \E p \in Shared : XReset(p)
    \/ \E p \in Shared : XRemove(p)

SpecDestroy == Init /\ [][NextDestroy]_vars

(* ------------------------------ claims --------------------------------- *)

\* C1: after any sequence of Database.dig, Database.remove, Database.reset
\* and Selection.add calls, every row of the global kind_codes_count table
\* has count >= 0 and count = the number of rows of the global nuts table
\* that reference its kind_codes_id.
C1_GlobalCounts ==
    \A k \in DOMAIN kind_codes_count :
        /\ kind_codes_count[k] >= 0
        /\ kind_codes_count[k] = Cardinality({n \in nuts : n.kind_codes_id = k})

\* a count has gone back to 0 while another (kind, codes) counts two nuts
C1_Witness ==
    /\ \E k \in DOMAIN kind_codes_count : kind_codes_count[k] = 0
    /\ \E k \in DOMAIN kind_codes_count : kind_codes_count[k] >= 2

\* C2: for every Squirrel, after any sequence of Squirrel.add,
\* Squirrel.remove, file changes on disk and Database.dig/reset/remove,
\* every row of the Squirrel's own kind_codes_count table has count >= 0
\* and count = the number of nuts of its projection that reference that
\* kind_codes_id.
C2_SquirrelCounts ==
    \A s \in Squirrels : \A k \in DOMAIN sq_count[s] :
        /\ sq_count[s][k] >= 0
        /\ sq_count[s][k] = Cardinality({n \in sq_nuts[s] : n.kind_codes_id = k})

\* one Squirrel's count has gone back to 0 (its projection was emptied)
\* while another Squirrel projects two nuts of one (kind, codes)
C2_Witness ==
    \E s, t \in Squirrels :
        /\ s # t
        /\ \E k \in DOMAIN sq_count[s] : sq_count[s][k] = 0
        /\ \E k \in DOMAIN sq_count[t] : sq_count[t][k] >= 2

Selected(D, s) == DOMAIN D.file_states[s] \cap DOMAIN D.files

\* path is a file of the selection of s
InSelection(D, s, path) == FileIdOf(D, path) \in Selected(D, s)

\* the rows of a nuts table that belong to the file path
RowsOf(D, rows, path) == {r \in rows : r.file_id = FileIdOf(D, path)}

\* the nuts of the file path a nuts table holds, as Nut.equality_values
NutsOf(D, rows, path) ==
    {equality_values(RowToNut(D, r)) : r \in RowsOf(D, rows, path)}

\* the nuts the backend yields for the current content of path
CurrentNuts(dk, path) ==
    {equality_values(BackendNuts(dk, path)[i]) :
        i \in 1..Len(BackendNuts(dk, path))}

\* path is indexed: its files row holds an mtime
Indexed(D, path) ==
    /\ FileIdOf(D, path) # NULL
    /\ D.files[FileIdOf(D, path)].mtime # NULL

\* the stored (mtime, size) of path
StoredStats(D, path) ==
    <<D.files[FileIdOf(D, path)].mtime, D.files[FileIdOf(D, path)].size>>

\* path is a readable file of the selection of s whose backend (mtime, size)
\* differs from the stored pair
ChangedOnDisk(D, dk, s, path) ==
    /\ InSelection(D, s, path)
    /\ Indexed(D, path)
    /\ dk[path].what = "ok"
    /\ StoredStats(D, path) # get_stats(dk, path)

\* C5: re-add is idempotent: if Squirrel.add(paths) has returned and no
\* file changed on disk, a second Squirrel.add(paths) leaves get_nfiles(),
\* get_nnuts(), the projection's set of nuts and the global nuts table
\* unchanged.
C5_ReAddIdempotent ==
    \A paths \in PathLists(Paths), kinds \in KindsArgs, check \in BOOLEAN :
        LET R1 == Squirrel_add(Store, disk, 1, paths, kinds, "detect", check)
            R2 == Squirrel_add(R1.D, disk, 1, paths, kinds, "detect", check)
        IN R1.exc = "none" =>
            /\ get_nfiles(R2.D, 1) = get_nfiles(R1.D, 1)
            /\ get_nnuts(R2.D, 1) = get_nnuts(R1.D, 1)
            /\ R2.D.sq_nuts[1] = R1.D.sq_nuts[1]
            /\ R2.D.nuts = R1.D.nuts

\* the state an add of two files has left, on which the same add returns
\* again, with both files' nuts projected
C5_Witness ==
    /\ get_nfiles(Store, 1) = 2
    /\ get_nnuts(Store, 1) >= 2
    /\ \E paths \in PathLists(Paths) :
          LET R1 == Squirrel_add(Store, disk, 1, paths, {}, "detect", TRUE)
          IN /\ R1.exc = "none"
             /\ R1.D = Store
             /\ \A p \in Paths : RowsOf(Store, sq_nuts[1], p) # {}

\* C6: files that change on disk are re-ingested: after
\* Squirrel.add(paths, check=True) returns, for every file of the selection
\* whose current backend (mtime, size) differed from the stored pair when
\* the call started, the global index and the projection hold exactly the
\* nuts the backend yields for the file's current content (possibly none)
\* and none of the nuts indexed from the earlier content; get_nfiles() is
\* unchanged.
C6_ReIngested ==
    \A paths \in PathLists(Paths) :
        LET R == Squirrel_add(Store, disk, 1, paths, {}, "detect", TRUE)
        IN /\ R.exc = "none"
           /\ \A i \in 1..Len(paths) : InSelection(Store, 1, paths[i])
           => /\ get_nfiles(R.D, 1) = get_nfiles(Store, 1)
              /\ \A p \in Paths :
                    ChangedOnDisk(Store, disk, 1, p) =>
                        /\ NutsOf(R.D, R.D.nuts, p) = CurrentNuts(disk, p)
                        /\ NutsOf(R.D, R.D.sq_nuts[1], p) = CurrentNuts(disk, p)
                        /\ Cardinality(RowsOf(R.D, R.D.nuts, p))
                              = Len(BackendNuts(disk, p))

\* C7: vanished file: if a file of a Squirrel selection was indexed and the
\* backend's get_stats now raises FileLoadError for it, then after
\* Squirrel.add([path], check=True) the file is still counted by
\* get_nfiles(), it has no nuts in the global index nor in the projection,
\* its file row has format/mtime/size NULL, and iter_codes()/iter_kinds() no
\* longer list any (kind, codes) that only this file provided; no exception
\* reaches the caller.
C7_Vanished ==
    \A p \in Paths :
        /\ InSelection(Store, 1, p)
        /\ Indexed(Store, p)
        /\ StatFails(disk, p)
        => LET R == Squirrel_add(Store, disk, 1, <<p>>, {}, "detect", TRUE)
           IN /\ R.exc = "none"
              /\ InSelection(R.D, 1, p)
              /\ get_nfiles(R.D, 1) = get_nfiles(Store, 1)
              /\ RowsOf(R.D, R.D.nuts, p) = {}
              /\ RowsOf(R.D, R.D.sq_nuts[1], p) = {}
              /\ R.D.files[FileIdOf(R.D, p)] =
                    [path |-> p, format |-> "NULL", mtime |-> NULL,
                     size |-> NULL]
              /\ \A x \in iter_counts(R.D, 1) :
                    \E r \in R.D.sq_nuts[1] :
                        /\ r.file_id # FileIdOf(R.D, p)
                        /\ R.D.kind_codes[r.kind_codes_id] = x[1]

\* C8: Squirrel.remove(paths) removes exactly the listed files from the
\* selection: get_nfiles() drops by the number of listed paths that were in
\* the selection, all projected nuts of those files are deleted and the
\* per-selection counts decremented accordingly, while the global files,
\* nuts and kind_codes_count tables, the other files of the selection and
\* other selections are left unchanged.
C8_RemoveFrame ==
    \A s \in Squirrels, paths \in PathLists(Paths) :
        LET R == Squirrel_remove(Store, s, paths)
            listed == {paths[i] : i \in 1..Len(paths)}
            gone == {FileIdOf(Store, p) : p \in {q \in listed :
                                                  InSelection(Store, s, q)}}
        IN /\ get_nfiles(R, s) = get_nfiles(Store, s) - Cardinality(gone)
           /\ DOMAIN R.file_states[s] = DOMAIN file_states[s] \ gone
           /\ R.sq_nuts[s] = {r \in sq_nuts[s] : r.file_id \notin gone}
           /\ \A k \in DOMAIN sq_count[s] :
                 R.sq_count[s][k] = sq_count[s][k]
                    - Cardinality({r \in sq_nuts[s] :
                          r.file_id \in gone /\ r.kind_codes_id = k})
           /\ DOMAIN R.sq_count[s] = DOMAIN sq_count[s]
           /\ R.files = files
           /\ R.nuts = nuts
           /\ R.kind_codes = kind_codes
           /\ R.kind_codes_count = kind_codes_count
           /\ \A f \in DOMAIN R.file_states[s] :
                 R.file_states[s][f] = file_states[s][f]
           /\ \A t \in Squirrels \ {s} :
                 /\ R.file_states[t] = file_states[t]
                 /\ R.sq_nuts[t] = sq_nuts[t]
                 /\ R.sq_count[t] = sq_count[t]

\* a remove that takes one of two files, with its nuts, out of a selection
\* while the other Squirrel projects nuts of the same file
C8_Witness ==
    \E p \in Paths :
        LET R == Squirrel_remove(Store, 1, <<p>>)
        IN /\ get_nfiles(Store, 1) = 2
           /\ get_nfiles(R, 1) = 1
           /\ 0 < get_nnuts(R, 1)
           /\ get_nnuts(R, 1) < get_nnuts(Store, 1)
           /\ RowsOf(Store, sq_nuts[2], p) # {}

\* C9: optimistic mode: Squirrel.add(paths, check=False) on a file that is
\* already indexed (stored mtime not NULL) and already in the selection
\* makes no backend get_stats/iload call for it and leaves its nuts in the
\* global index and in the projection unchanged, even if the file was
\* modified on disk; a later add(paths, check=True) then picks up the
\* modification.
C9_Optimistic ==
    \A p \in Paths :
        /\ InSelection(Store, 1, p)
        /\ Indexed(Store, p)
        => LET R == Squirrel_add(Store, disk, 1, <<p>>, {}, "detect", FALSE)
               L == Squirrel_add(R.D, disk, 1, <<p>>, {}, "detect", TRUE)
           IN /\ p \notin R.stats \cup R.loads
              /\ RowsOf(R.D, R.D.nuts, p) = RowsOf(Store, nuts, p)
              /\ RowsOf(R.D, R.D.sq_nuts[1], p) = RowsOf(Store, sq_nuts[1], p)
              /\ ChangedOnDisk(Store, disk, 1, p) =>
                    /\ L.exc = "none"
                    /\ NutsOf(L.D, L.D.nuts, p) = CurrentNuts(disk, p)
                    /\ NutsOf(L.D, L.D.sq_nuts[1], p) = CurrentNuts(disk, p)

\* the files a run of iload over paths resets, and the paths without them
Others(paths, R) == SelectSeq(paths, LAMBDA p : p \notin R.resets)

\* the nuts a run yields for the files other than those it resets
YieldedOthers(R) == SelectSeq(R.yielded, LAMBDA n : n.file_path \notin R.resets)

\* the files row of path and the nuts the index holds for it
IndexEntry(D, path) ==
    IF FileIdOf(D, path) = NULL THEN <<>>
    ELSE <<D.files[FileIdOf(D, path)], NutsOf(D, D.nuts, path)>>

\* C10: partial failure in a batch: when iload runs over several files
\* with a database and one file raises FileLoadError (on stat, format
\* detection or read), no exception escapes the iteration, every nut of
\* every other file is still yielded, the failing file is reset in the
\* store (format/mtime/size NULL, no nuts), and the index entries of the
\* other files are unaffected.
C10_PartialFailure ==
    \A paths \in PathLists(Paths), check \in BOOLEAN, skip \in BOOLEAN,
       content_empty \in BOOLEAN :
        LET R == IloadPaths(Store, disk, paths, check, skip, content_empty,
                            "detect")
            A == IloadPaths(Store, disk, Others(paths, R), check, skip,
                            content_empty, "detect")
        IN R.resets # {} =>
            /\ R.exc = "none"
            /\ YieldedOthers(R) = A.yielded
            /\ \A p \in R.resets :
                  /\ R.D.files[FileIdOf(R.D, p)] =
                        [path |-> p, format |-> "NULL", mtime |-> NULL,
                         size |-> NULL]
                  /\ RowsOf(R.D, R.D.nuts, p) = {}
            /\ \A p \in Paths \ R.resets :
                  IndexEntry(R.D, p) = IndexEntry(A.D, p)

\* a batch of two files: the first, indexed with nuts, fails and is reset,
\* the second is read and its nuts are yielded and indexed
C10_Witness ==
    \E p, q \in Paths :
        LET R == IloadPaths(Store, disk, <<p, q>>, TRUE, FALSE, FALSE, "detect")
        IN /\ p # q
           /\ R.resets = {p}
           /\ RowsOf(Store, nuts, p) # {}
           /\ q \in R.loads
           /\ q \in R.digs
           /\ \E i \in 1..Len(R.yielded) : R.yielded[i].file_path = q

\* path has a files row without mtime: never read, or reset
Unread(D, path) == FileIdOf(D, path) # NULL /\ ~Indexed(D, path)

\* the index holds exactly the nuts the backend yields for path
IndexIsCurrent(D, dk, path) ==
    /\ NutsOf(D, D.nuts, path) = CurrentNuts(dk, path)
    /\ Cardinality(RowsOf(D, D.nuts, path)) = Len(BackendNuts(dk, path))

\* C11: recovery after a per-file failure: once a file has been reset
\* because of a FileLoadError and later becomes readable again, the next
\* Squirrel.add / iload over the same paths re-reads it (whether check is
\* True or False) and afterwards the index holds exactly the nuts the
\* backend yields for it.
C11_Recovery ==
    \A p \in Shared, check \in BOOLEAN :
        Unread(Store, p) /\ disk[p].what = "ok" =>
            /\ \A s \in Squirrels :
                  LET R == Squirrel_add(Store, disk, s, <<p>>, {}, "detect",
                                        check)
                  IN p \in R.loads /\ IndexIsCurrent(R.D, disk, p)
            /\ \A skip \in BOOLEAN, content_empty \in BOOLEAN :
                  LET R == IloadPaths(Store, disk, <<p>>, check, skip,
                                      content_empty, "detect")
                  IN p \in R.loads /\ IndexIsCurrent(R.D, disk, p)

\* a file that was indexed, then reset (its kind_codes row stays, its nuts
\* and its mtime are gone) while it is in the selection with state 2, and
\* that has been written again with nuts
C11_Witness ==
    \E p \in Shared :
        /\ Unread(Store, p)
        /\ kind_codes # <<>>
        /\ InSelection(Store, 1, p)
        /\ file_states[1][FileIdOf(Store, p)] = 2
        /\ disk[p].what = "ok"
        /\ disk[p].mtime = 2
        /\ BackendNuts(disk, p) # <<>>

\* a format tag no backend provides
NoSuchFormat == "nope"

\* the files a run with check may reset although the format is never
\* looked at: indexed files that have vanished
Vanished(D, dk, paths) ==
    {paths[i] : i \in {j \in 1..Len(paths) :
                         Indexed(D, paths[j]) /\ dk[paths[j]].what = "gone"}}

\* the index holds for path in E what it holds in D; a path without a files
\* row in D may have got one without mtime (INSERT OR IGNORE INTO files)
SameEntry(D, E, path) ==
    IF FileIdOf(D, path) # NULL
    THEN IndexEntry(E, path) = IndexEntry(D, path)
    ELSE ~Indexed(E, path) /\ NutsOf(E, E.nuts, path) = {}

\* a run with an unknown format has read nothing and dug nothing, only
\* UnknownFormat can have escaped, and only vanished files were reset
FormatNeverRead(D, dk, paths, R) ==
    /\ R.loads = {}
    /\ R.digs = {}
    /\ R.exc \in {"none", "UnknownFormat"}
    /\ R.resets \subseteq Vanished(D, dk, paths)
    /\ \A i \in 1..Len(paths) :
          paths[i] \notin R.resets => SameEntry(D, R.D, paths[i])

\* some path of the list is not indexed, so that iload has to read it
SomeUnindexed(D, paths) == \E i \in 1..Len(paths) : ~Indexed(D, paths[i])

\* C12 (amended): an explicitly requested format that no backend provides
\* makes iload surface UnknownFormat to the caller as soon as it has to
\* read a file (always without a database, and with a database whenever a
\* path is not indexed): the exception is not treated as a per-file
\* FileLoadError, no file is reset because of it, nothing is read or dug,
\* and iteration stops. Files served from the index, or skipped as
\* unchanged, never reach get_backend.
C12_UnknownFormatWhenRead ==
    \A paths \in PathLists(Paths), check \in BOOLEAN, content_empty \in BOOLEAN :
        /\ \A skip \in BOOLEAN :
              LET R == IloadPaths(Store, disk, paths, check, skip,
                                  content_empty, NoSuchFormat)
              IN /\ FormatNeverRead(Store, disk, paths, R)
                 /\ SomeUnindexed(Store, paths) =>
                        /\ R.exc = "UnknownFormat"
                        /\ \A i \in 1..Len(paths) :
                              ~Indexed(Store, paths[i]) =>
                                    paths[i] \notin R.resets
        /\ LET R == IloadNoDatabase(Store, disk, paths, check, content_empty,
                                    NoSuchFormat)
           IN /\ R.exc = "UnknownFormat"
              /\ R.yielded = <<>>
              /\ R.resets = {}
              /\ R.D = Store

\* an indexed, unchanged file is served from the index before a file that
\* is not indexed makes the same run raise UnknownFormat
C12_Witness ==
    \E p \in Paths, q \in Paths :
        /\ Indexed(Store, p)
        /\ ~Indexed(Store, q)
        /\ disk[q].what = "ok"
        /\ LET R == IloadPaths(Store, disk, <<p, q>>, TRUE, FALSE, TRUE,
                               NoSuchFormat)
           IN /\ R.exc = "UnknownFormat"
              /\ R.yielded # <<>>
              /\ R.resets = {}

\* C12 as stated: whenever the requested format is unknown, iload raises
\* UnknownFormat and resets no file
C12_UnknownFormatAlways ==
    \A paths \in PathLists(Paths), check \in BOOLEAN, skip \in BOOLEAN,
       content_empty \in BOOLEAN :
        LET R == IloadPaths(Store, disk, paths, check, skip, content_empty,
                            NoSuchFormat)
        IN R.exc = "UnknownFormat" /\ R.resets = {}

\* the tags the backends' detect functions return
FormatTags == {"mseed", "sac", "datacube", "stationxml", "pyrocko_stations"}

\* the positions in backend_modules of the backends whose detect accepts
Accepting(first512) ==
    {i \in 1..Len(backend_modules) :
        ModDetect(backend_modules[i], first512) \in FormatTags}

\* C13: detect_format(path) returns 'virtual' for any path starting with
\* 'virtual:' without opening a file; otherwise it returns the tag of the
\* first backend, in registration order, whose detect accepts the first 512
\* bytes, and raises FormatDetectionFailed when the file cannot be opened
\* or every backend declines (e.g. an empty or non-existent file).
C13_DetectFormat ==
    detected.done =>
        IF probe.virtual
        THEN detected.result = "virtual" /\ ~detected.opened
        ELSE IF ~probe.opens
        THEN detected.result = "FormatDetectionFailed"
        ELSE IF Accepting(probe.data) # {}
        THEN detected.result =
                ModDetect(backend_modules[Min(Accepting(probe.data))],
                          probe.data)
        ELSE detected.result = "FormatDetectionFailed"

\* path is indexed and its backend (mtime, size) is the stored pair
IndexedUnchanged(D, dk, path) ==
    /\ Indexed(D, path)
    /\ dk[path].what = "ok"
    /\ StoredStats(D, path) = get_stats(dk, path)

\* the nuts of a list, as a bag of Nut.equality_values
YieldedBag(nutlist) ==
    [v \in {equality_values(nutlist[i]) : i \in 1..Len(nutlist)} |->
        Cardinality({i \in 1..Len(nutlist) :
                        equality_values(nutlist[i]) = v})]

\* C14: database-only re-load: a second iload(paths, content=[],
\* database=db) over files that are already indexed and unchanged yields
\* the same nuts as the first, calls no backend iload and performs no dig.
C14_DatabaseOnly ==
    \A paths \in PathLists(Paths), check \in BOOLEAN :
        LET R1 == IloadPaths(Store, disk, paths, check, FALSE, TRUE, "detect")
            R2 == IloadPaths(R1.D, disk, paths, check, FALSE, TRUE, "detect")
        IN (/\ R1.exc = "none"
            /\ \A i \in 1..Len(paths) : IndexedUnchanged(R1.D, disk, paths[i]))
           => /\ R2.exc = "none"
              /\ R2.loads = {}
              /\ R2.digs = {}
              /\ R2.resets = {}
              /\ R2.D = R1.D
              /\ YieldedBag(R2.yielded) = YieldedBag(R1.yielded)

\* the first iload reads a file that is not indexed and digs its nuts, the
\* second one yields them from the index
C14_Witness ==
    \E p \in Paths :
        /\ ~Indexed(Store, p)
        /\ LET R1 == IloadPaths(Store, disk, <<p>>, TRUE, FALSE, TRUE, "detect")
               R2 == IloadPaths(R1.D, disk, <<p>>, TRUE, FALSE, TRUE, "detect")
           IN /\ R1.loads = {p}
              /\ R1.digs = {p}
              /\ IndexedUnchanged(R1.D, disk, p)
              /\ R2.loads = {}
              /\ Len(R2.yielded) = 2

\* the paths of the files of the selection of s
SelectedPaths(D, s) == {D.files[f].path : f \in Selected(D, s)}

\* the paths of the groups undig_grouped yields
GroupPaths(groups) == {groups[i][1] : i \in 1..Len(groups)}

PathOfDb(db) == IF db = "other" THEN "other_path" ELSE "default_path"

\* an id no object of the state has
SpareId == MaxObjects + 1

\* process q opens the persistent selection name on db in the world W and
\* sees the files with the states of table
OpenerSees(W, q, db, name, table) ==
    /\ Selection_init(W, SpareId, q, PathOfDb(db),
                      [given |-> TRUE, name |-> name]).exc = "none"
    /\ SelectionStates(
            Selection_init(W, SpareId, q, PathOfDb(db),
                           [given |-> TRUE, name |-> name]).W,
            PersistentObject(SpareId, q, db, name)) = table

\* a Selection made now by process q would use the temp table of o
OpensTableOf(W, o, q, database, persistent) ==
    /\ Selection_init(W, SpareId, q, database, persistent).exc = "none"
    /\ \E n \in Selection_init(W, SpareId, q, database, persistent).W.alive :
          /\ n.id = SpareId
          /\ ~n.persistent
          /\ n.proc = o.proc /\ n.db = o.db /\ n.serial = o.serial

\* the object o goes away in this step
GoesAway(o) == o \in alive /\ o \notin alive'

\* C16: a persistent selection survives its creator: after a persistent
\* selection with name N has had files added and its owner has gone away
\* (destruction commits, does not drop), a second opener constructing a
\* selection with the same name N on the same database sees the same set
\* of files with their states; a transient selection's tables, by
\* contrast, are dropped on destruction and never visible to another
\* opener.
C16_PersistentSurvives ==
    /\ [][\A o \in alive :
            GoesAway(o) =>
                IF o.persistent
                THEN /\ o.name \in DOMAIN psel'[o.db]
                     /\ psel'[o.db][o.name] = SelectionStates(World, o)
                     /\ \A q \in Procs :
                           pending'[o.db].owner # q =>
                               OpenerSees(World', q, o.db, o.name,
                                          SelectionStates(World, o))
                ELSE o.serial \notin DOMAIN tsel'[o.proc][o.db]]_vars
    /\ [](\A o \in alive :
            ~o.persistent =>
                \A q \in Procs, database \in DbArgs,
                   persistent \in PersistentArgs :
                    ~OpensTableOf(World, o, q, database, persistent))

\* the owner of a persistent selection of the other database has gone
\* away after files were added, and a transient selection of the same
\* process has been made and dropped
C16_Witness ==
    \E name \in DOMAIN psel["other"] :
        /\ psel["other"][name] # EmptyFn
        /\ \A o \in alive : ~o.persistent
        /\ pending["other"].owner = 0
        /\ \E proc \in Procs :
              /\ icount[proc] > 0
              /\ tsel[proc]["other"] = EmptyFn
              /\ tsel[proc]["default"] = EmptyFn
        /\ \A q \in Procs :
              OpenerSees(World, q, "other", name, psel["other"][name])

\* the tables process q sees in the worlds V and W have the same names
SameTables(V, W, q) ==
    /\ \A db \in DbNames : DOMAIN View(V, q, db) = DOMAIN View(W, q, db)
    /\ \A db \in DbNames : DOMAIN V.tsel[q][db] = DOMAIN W.tsel[q][db]

\* C17: constructing a persistent selection fails with an error, and
\* creates no table, whenever it would live in the default (shared)
\* database or its name does not match [A-Za-z_][A-Za-z0-9_]*; it succeeds
\* for a valid name on a non-default database.
C17_PersistentGuard ==
    \A q \in Procs, database \in DbArgs, name \in NameArgs :
        LET R == Selection_init(World, SpareId, q, database,
                                [given |-> TRUE, name |-> name])
        IN IF get_database(database) = "default" \/ ~IsIdentifier(name)
           THEN R.exc # "none" /\ SameTables(R.W, World, q)
           ELSE ~Locked(World, q, get_database(database)) => R.exc = "none"

\* the rows of the global index and of the projections of the Squirrels
StoredRows == nuts \cup UNION {sq_nuts[s] : s \in Squirrels}

\* the rows that have both ends, and their tmax_seconds - tmin_seconds
HasBothEnds(r) == r.tmin_seconds # NULL /\ r.tmax_seconds # NULL
Duration(r) == r.tmax_seconds - r.tmin_seconds

\* the index k, counted from 0, of the bucket over the edges E that
\* contains d, the upper edge inclusive; Len(E) for d above the last edge
BucketOf(E, d) ==
    IF d > E[Len(E)] THEN Len(E)
    ELSE CHOOSE k \in 0..Len(E) - 1 :
            d <= E[k + 1] /\ (k > 0 => d > E[k])

RegistersTwice(dat, nutlist) ==
    \E i \in 1..Len(nutlist) :
        \/ dat[nutlist[i].file_path][VKey(nutlist[i])] > 0
        \/ \E j \in 1..Len(nutlist) :
              /\ j # i
              /\ nutlist[j].file_path = nutlist[i].file_path
              /\ VKey(nutlist[j]) = VKey(nutlist[i])

\* C19: registering through the virtual backend's add_nuts two nuts with
\* identical (file_path, file_segment, file_element), in one call or
\* across calls, raises UniqueKeyRequired.
C19_UniqueKeyRequired ==
    \A nutlist \in VCalls :
        \A order \in Enumerations(CallPaths(nutlist)) :
            RegistersTwice(data, nutlist) =>
                add_nuts(data, data_mtimes, nutlist, order).exc
                    = "UniqueKeyRequired"

\* the lists of distinct readable paths whose nuts one dig call is given
DigPathLists ==
    {pl \in PathLists(Paths) :
        /\ \A i \in 1..Len(pl) : disk[pl[i]].what = "ok"
        /\ \A i, j \in 1..Len(pl) : i # j => pl[i] # pl[j]}

\* the nuts read from the files pl, in one list
RECURSIVE NutsOfPaths(_)
NutsOfPaths(pl) ==
    IF pl = <<>> THEN <<>> ELSE LoadedNuts(Head(pl)) \o NutsOfPaths(Tail(pl))

\* the paths occurring in a list of nuts
PathsIn(nutlist) == {nutlist[i].file_path : i \in 1..Len(nutlist)}

\* the dig of the nuts of pl has left E from D as the round trip demands
RoundTrip(D, E, pl) ==
    \A p \in Paths :
        IF p \in PathsIn(NutsOfPaths(pl))
        THEN /\ Database_undig(E, p) = LoadedNuts(p)
             /\ FileIdOf(D, p) # NULL => FileIdOf(E, p) = FileIdOf(D, p)
        ELSE /\ Database_undig(E, p) = Database_undig(D, p)
             /\ FileIdOf(E, p) = FileIdOf(D, p)

\* C20: dig/undig round trip with replacement: after Database.dig(nuts),
\* for every path occurring in nuts, undig(path) returns exactly the nuts
\* of that call for that path (equal by nut equality, carrying the file's
\* new format/mtime/size), any nuts previously indexed for that path are
\* gone, the path keeps its file_id, and the nuts of every other path are
\* unchanged.
C20_DigUndig ==
    \A pl \in DigPathLists :
        \A forder \in Enumerations(DigFileSet(NutsOfPaths(pl))),
           korder \in Enumerations(DigKindCodesSet(NutsOfPaths(pl))) :
            /\ Database_dig(Store, NutsOfPaths(pl), forder, korder).exc = "none"
            /\ RoundTrip(Store,
                         Database_dig(Store, NutsOfPaths(pl), forder,
                                      korder).D,
                         pl)

\* a file indexed with the nuts of an earlier content is dug again with
\* other nuts while another file is indexed with nuts
C20_Witness ==
    \E p \in Paths, q \in Paths :
        /\ p # q
        /\ Indexed(Store, p)
        /\ Database_undig(Store, p) # <<>>
        /\ LoadedNuts(p) # <<>>
        /\ disk[p].what = "ok"
        /\ NutsOf(Store, nuts, p) # CurrentNuts(disk, p)
        /\ Database_undig(Store, q) # <<>>
        /\ Database_undig(
              Database_dig(Store, LoadedNuts(p),
                  CHOOSE fo \in Enumerations(DigFileSet(LoadedNuts(p))) : TRUE,
                  CHOOSE ko \in Enumerations(DigKindCodesSet(LoadedNuts(p))) :
                      TRUE).D,
              p) = LoadedNuts(p)


\* the times Nut.tmin gives for the nuts of the projection that have one
ProjectedTmin(D, s) ==
    {Nut_tmin(RowToNut(D, r)) : r \in D.sq_nuts[s]} \ {NULL}

\* the times Nut.tmax gives for the nuts of the projection that have one
ProjectedTmax(D, s) ==
    {Nut_tmax(RowToNut(D, r)) : r \in D.sq_nuts[s]} \ {NULL}

\* C21: Squirrel.time_span() returns (min over projected nuts of
\* tmin_seconds + tmin_offset, max over projected nuts of tmax_seconds +
\* tmax_offset) with offsets in [0, 1), and (None, None) when the
\* projection is empty. The minimum and the maximum range over the nuts
\* that have the time; an end no nut has is None.
C21_TimeSpan ==
    \A s \in Squirrels :
        /\ \A r \in sq_nuts[s] : /\ r.tmin_offset \in 0..TRes - 1
                                 /\ r.tmax_offset \in 0..TRes - 1
        /\ time_span(Store, s)[1] =
              IF ProjectedTmin(Store, s) = {} THEN NULL
              ELSE Min(ProjectedTmin(Store, s))
        /\ time_span(Store, s)[2] =
              IF ProjectedTmax(Store, s) = {} THEN NULL
              ELSE Max(ProjectedTmax(Store, s))
        /\ sq_nuts[s] = {} => time_span(Store, s) = <<NULL, NULL>>

\* a projection of two nuts where the earlier second has the larger offset
\* at the start and the later second the smaller offset at the end
C21_Witness ==
    \E s \in Squirrels : \E a \in sq_nuts[s], b \in sq_nuts[s] :
        /\ a.tmin_seconds # NULL /\ b.tmin_seconds # NULL
        /\ a.tmax_seconds # NULL /\ b.tmax_seconds # NULL
        /\ a.tmin_seconds < b.tmin_seconds
        /\ a.tmin_offset > b.tmin_offset
        /\ a.tmax_seconds < b.tmax_seconds
        /\ a.tmax_offset > b.tmax_offset
        /\ time_span(Store, s) =
              <<a.tmin_seconds * TRes + a.tmin_offset,
                b.tmax_seconds * TRes + b.tmax_offset>>


\* the (kind, codes) of the nuts of the projection of s
ProjectedPairs(D, s) == {D.kind_codes[r.kind_codes_id] : r \in D.sq_nuts[s]}

\* how many nuts of the projection of s have the pair kc
ProjectedCount(D, s, kc) ==
    Cardinality({r \in D.sq_nuts[s] : D.kind_codes[r.kind_codes_id] = kc})

\* the kinds and the codes queries are asked for: those of the scenario
\* and one no file holds
KindArgs == {"waveform", "station", "event"}
CodesArgs == {<<"STA">>, <<"S">>, <<"XX">>}

\* C22: the Squirrel's identifier queries agree with its projection and
\* with each other in every state: iter_counts() yields ((kind, codes), n)
\* exactly for the (kind, codes) pairs having n > 0 projected nuts;
\* iter_codes(kind) and iter_kinds(codes) yield exactly the codes / kinds
\* of those pairs; the union over kinds k of get_codes(k) equals
\* get_codes() and the union over codes c of get_kinds(c) equals
\* get_kinds(); pairs whose count dropped to 0 are not listed.
C22_IdentifierQueries ==
    \A s \in Squirrels :
        /\ Database_iter_counts(Store, None, sq_count[s]) =
              {<<<<kc[1], SplitCodes(kc[2])>>, ProjectedCount(Store, s, kc)>> :
                  kc \in ProjectedPairs(Store, s)}
        /\ \A kind \in KindArgs :
              Database_iter_codes(Store, Given(kind), sq_count[s]) =
                  {SplitCodes(kc[2]) :
                      kc \in {x \in ProjectedPairs(Store, s) : x[1] = kind}}
        /\ \A codes \in CodesArgs :
              Database_iter_kinds(Store, Given(codes), sq_count[s]) =
                  {kc[1] : kc \in {x \in ProjectedPairs(Store, s) :
                                      SplitCodes(x[2]) = codes}}
        /\ Database_iter_codes(Store, None, sq_count[s]) =
              {SplitCodes(kc[2]) : kc \in ProjectedPairs(Store, s)}
        /\ Database_iter_kinds(Store, None, sq_count[s]) =
              {kc[1] : kc \in ProjectedPairs(Store, s)}
        /\ UNION {get_codes(Store, s, Given(k)) : k \in KindArgs} =
              get_codes(Store, s, None)
        /\ UNION {get_kinds(Store, s, Given(c)) : c \in CodesArgs} =
              get_kinds(Store, s, None)
        /\ \A k \in DOMAIN sq_count[s] :
              sq_count[s][k] = 0 =>
                  \A x \in Database_iter_counts(Store, None, sq_count[s]) :
                      x[1] # <<kind_codes[k][1], SplitCodes(kind_codes[k][2])>>

\* a Squirrel projects nuts of one pair, two of them, while the count of
\* another pair it once projected has dropped to 0
C22_Witness ==
    \E s \in Squirrels : \E k, j \in DOMAIN sq_count[s] :
        /\ sq_count[s][k] = 0
        /\ sq_count[s][j] = 2
        /\ Database_iter_counts(Store, None, sq_count[s]) =
              {<<<<kind_codes[j][1], SplitCodes(kind_codes[j][2])>>, 2>>}
        /\ get_kinds(Store, s, None) = {kind_codes[j][1]}


\* C23: make_unique_name never returns the same name twice within a
\* process, for any interleaving of concurrent calls from several threads:
\* reading and incrementing the counter happen atomically under the lock.
C23_UniqueNames ==
    /\ \A i, j \in 1..Len(naming.returned) :
          i # j => naming.returned[i] # naming.returned[j]
    /\ \A t \in Threads :
          naming.pc[t] \in {"held", "named", "loaded", "stored"} =>
              naming.g_lock = t
    /\ \A t, u \in Threads :
          /\ t # u
          /\ naming.pc[t] \in {"named", "loaded", "stored", "released"}
          /\ naming.pc[u] \in {"named", "loaded", "stored", "released"}
          => naming.name[t] # naming.name[u]

\* every thread has made all its calls, and a thread that took its name
\* later has returned before the one that took it earlier
C23_Witness ==
    /\ Len(naming.returned) = NThreads * MaxCalls
    /\ \E i, j \in 1..Len(naming.returned) :
          /\ i < j
          /\ naming.returned[i] = FormatName(naming.pid, 1)
          /\ naming.returned[j] = FormatName(naming.pid, 0)
    /\ naming.g_icount = NThreads * MaxCalls


\* every row of a nuts table references rows of files and kind_codes
References(D, rows) ==
    \A n \in rows : /\ n.file_id \in DOMAIN D.files
                    /\ n.kind_codes_id \in 1..Len(D.kind_codes)

\* the rows of a nuts table that belong to the file fid
FileRows(rows, fid) == {n \in rows : n.file_id = fid}

\* E is D with all nuts of the file fid deleted from the global table and
\* from every projection, the counts taken down by what was deleted
NutsOfFileDeleted(D, E, fid) ==
    /\ E.nuts = D.nuts \ FileRows(D.nuts, fid)
    /\ E.kind_codes_count =
          [k \in DOMAIN D.kind_codes_count |->
              D.kind_codes_count[k]
              - Cardinality({n \in FileRows(D.nuts, fid) :
                               n.kind_codes_id = k})]
    /\ \A s \in Squirrels :
          /\ E.sq_nuts[s] = D.sq_nuts[s] \ FileRows(D.sq_nuts[s], fid)
          /\ E.sq_count[s] =
                [k \in DOMAIN D.sq_count[s] |->
                    D.sq_count[s][k]
                    - Cardinality({n \in FileRows(D.sq_nuts[s], fid) :
                                     n.kind_codes_id = k})]

\* C24: referential integrity of the global index in every reachable
\* state: every nut references an existing files row and an existing
\* kind_codes row; whenever a files row is deleted (remove) or updated
\* (reset, dig), all nuts of that file are deleted before the change, in
\* the global table and in the projection of every live Squirrel, with the
\* corresponding counts decremented.
C24_ReferentialIntegrity ==
    /\ References(Store, nuts)
    /\ \A s \in Squirrels : References(Store, sq_nuts[s])
    /\ \A p \in Paths :
          FileIdOf(Store, p) # NULL =>
              /\ NutsOfFileDeleted(Store, Database_remove(Store, p),
                                   FileIdOf(Store, p))
              /\ FileIdOf(Database_remove(Store, p), p) = NULL
              /\ NutsOfFileDeleted(Store, Database_reset(Store, p),
                                   FileIdOf(Store, p))
              /\ \A m \in 1..MaxMtime :
                    NutsOfFileDeleted(Store,
                                      UpdateFile(Store, p, "mseed", m, 0),
                                      FileIdOf(Store, p))

\* a file has nuts in the global table and in the projections of two
\* Squirrels, so that remove and reset of the file change both
C24_Witness ==
    \E p \in Paths, s \in Squirrels, t \in Squirrels :
        /\ s # t
        /\ FileIdOf(Store, p) # NULL
        /\ FileRows(nuts, FileIdOf(Store, p)) # {}
        /\ FileRows(sq_nuts[s], FileIdOf(Store, p)) # {}
        /\ FileRows(sq_nuts[t], FileIdOf(Store, p)) # {}
        /\ Database_remove(Store, p).sq_nuts[s] # sq_nuts[s]
        /\ Database_reset(Store, p).sq_count[t] # sq_count[t]


\* the files of a state table that have a non-zero state and an index entry
Checked(D, fs) ==
    {f \in DOMAIN fs \cap DOMAIN D.files :
        fs[f] # 0 /\ D.files[f].mtime # NULL}

\* the backend gives the stored (mtime, size) of the file f
MatchesStored(D, dk, f) ==
    /\ ~StatFails(dk, D.files[f].path)
    /\ get_stats(dk, D.files[f].path) = <<D.files[f].mtime, D.files[f].size>>

Mirrored(D, f, kinds) ==
    {n \in D.nuts :
        /\ n.file_id = f
        /\ kinds = {} \/ D.kind_codes[n.kind_codes_id][1] \in kinds}

\* C26: after Squirrel._update_nuts(kinds) (and hence after every
\* Squirrel.add) every file of the selection has state 2, and every file
\* that had state != 2 before the call has all its globally indexed nuts
\* (restricted to kinds when given) present in the projection; files
\* already in state 2 contribute no new rows, so an immediately repeated
\* call adds nothing.
C26_UpdateNuts ==
    \A s \in Squirrels, kinds \in KindsArgs :
        /\ Squirrel_update_nuts(Store, s, kinds).exc = "none"
        /\ \A f \in DOMAIN file_states[s] :
              /\ Squirrel_update_nuts(Store, s, kinds).D.file_states[s][f] = 2
              /\ file_states[s][f] # 2 =>
                    Mirrored(Store, f, kinds)
                        \subseteq Squirrel_update_nuts(Store, s, kinds).D.sq_nuts[s]
              /\ file_states[s][f] = 2 =>
                    FileRows(Squirrel_update_nuts(Store, s, kinds).D.sq_nuts[s], f)
                        = FileRows(sq_nuts[s], f)
        /\ Squirrel_update_nuts(Squirrel_update_nuts(Store, s, kinds).D,
                                s, kinds).D.sq_nuts[s]
              = Squirrel_update_nuts(Store, s, kinds).D.sq_nuts[s]


\* the kind of a row of a nuts table
KindOfRow(D, n) == D.kind_codes[n.kind_codes_id][1]

\* C27: kinds filter: when every add on a Squirrel was called with
\* kinds=K, the projection contains only nuts whose kind is in K, so
\* get_kinds() is a subset of K, while the global index still holds the
\* nuts of all kinds of those files (an add leaves the global index as the
\* same add without kinds leaves it).
C27_KindsFilter ==
    \A s \in Squirrels :
        /\ \A n \in sq_nuts[s] : KindOfRow(Store, n) \in KindsOf(s)
        /\ get_kinds(Store, s, None) \subseteq KindsOf(s)
        /\ \A paths \in PathLists(Paths), check \in BOOLEAN :
              /\ Squirrel_add(Store, disk, s, paths, KindsOf(s), "detect",
                              check).D.nuts
                    = Squirrel_add(Store, disk, s, paths, {}, "detect",
                                   check).D.nuts
              /\ \A n \in Squirrel_add(Store, disk, s, paths, KindsOf(s),
                                       "detect", check).D.sq_nuts[s] :
                    KindOfRow(Squirrel_add(Store, disk, s, paths, KindsOf(s),
                                           "detect", check).D, n)
                        \in KindsOf(s)

\* a Squirrel has two files in state 2, one of its kinds, whose nuts it
\* projects, and one of another kind, whose nuts are in the global index
\* alone
C27_Witness ==
    \E s \in Squirrels :
        \E f \in DOMAIN file_states[s], g \in DOMAIN file_states[s] :
            /\ file_states[s][f] = 2 /\ file_states[s][g] = 2
            /\ FileRows(sq_nuts[s], f) # {}
            /\ FileRows(sq_nuts[s], f) = FileRows(nuts, f)
            /\ FileRows(nuts, g) # {}
            /\ FileRows(sq_nuts[s], g) = {}
            /\ \A n \in FileRows(nuts, g) : KindOfRow(Store, n) \notin KindsOf(s)
            /\ get_kinds(Store, s, None) # {}


\* the states the state argument of Selection.add is given
StateArgs == 0..2

\* the paths of a list that have no files row in D
NewPaths(D, paths) ==
    {paths[i] : i \in 1..Len(paths)} \ {D.files[f].path : f \in DOMAIN D.files}

C29_InputOrder ==
    \A pl \in DigPathLists :
        /\ IloadNoDatabase(Store, disk, pl, TRUE, TRUE, "detect").yielded
              = NutsOfPaths(pl)
        /\ IloadPaths(Store, disk, pl, TRUE, FALSE, TRUE, "detect").yielded
              = NutsOfPaths(pl)


\* C30: while a file is being read by an iload with a database, and after
\* the consumer has abandoned the iteration at one of its nuts, the index
\* holds for that file what it held when the file was entered, none of the
\* nuts read so far having been dug; and once the backend has raised
\* FileLoadError for a file the index holds no nut of it.
C30_CancellationSafety ==
    /\ (gen.pc = "reading" \/ gen.last = "abandoned")
          => Database_undig(Store, gen.path) = gen.indexed
    /\ gen.failed => Database_undig(Store, gen.path) = <<>>

\* the consumer has abandoned the iteration at the first nut of a file
\* whose index entry differs from what is being read
C30_Witness ==
    /\ gen.last = "abandoned"
    /\ gen.read # <<>>
    /\ gen.indexed # <<>>
    /\ NutsDiffer(SubSeq(gen.read, 1, 1), SubSeq(gen.indexed, 1, 1))
    /\ Database_undig(Store, gen.path) = gen.indexed

\* the backend has raised FileLoadError after a nut of the file was yielded
C30_WitnessRaised ==
    /\ gen.failed
    /\ gen.read # <<>>
    /\ Database_undig(Store, gen.path) = <<>>


\* C31: when Database.commit() has returned, or iload(..., commit=True) has
\* finished, no write is left uncommitted: no transaction is open and the
\* database file holds the tables as the connection sees them.
C31_CommitFlushes ==
    conn.returned \in {"commit", "iload"}
        => /\ ~conn.in_transaction
           /\ conn.committed = MainTables(Store)


\* the stage record of the file p of an iload with a database over the
\* store D, when the loop has gone through lines 179-224 for it
StagesOf(D, dk, p, check, content_empty) ==
    ReadStage(
        FormatStage(
            CachedStage(CheckStage(dk, p, GroupNuts(D, FileIdOf(D, p)),
                                   check),
                        content_empty),
            dk, p, "detect"),
        dk, p)

\* the attributes nut equality looks at: all but file_path, file_format,
\* file_mtime, file_size and content
ComparedAttributes ==
    {"file_segment", "file_element", "kind", "codes", "tmin_seconds",
     "tmin_offset", "tmax_seconds", "tmax_offset", "deltat"}

\* the lists a and b of nuts are equal by nut equality
EqualNuts(a, b) ==
    /\ Len(a) = Len(b)
    /\ \A i \in 1..Len(a) : \A x \in ComparedAttributes : a[i][x] = b[i][x]

\* the known file p is read again and the nuts read equal the cached ones
RereadEqual(D, dk, p, check) ==
    /\ FileIdOf(D, p) # NULL
    /\ StagesOf(D, dk, p, check, FALSE).exc = "none"
    /\ StagesOf(D, dk, p, check, FALSE).loads = {p}
    /\ EqualNuts(StagesOf(D, dk, p, check, FALSE).nuts,
                 StagesOf(D, dk, p, check, FALSE).old_nuts)

\* C32: iload writes to the index only on a difference: for a file that
\* iload reads again and whose newly read nuts equal the cached nuts by nut
\* equality, Database.dig is not called, and the files row and the nuts of
\* the file in the global table and in every projection are as before.
C32_WriteOnDifference ==
    \A paths \in PathLists(Paths), check \in BOOLEAN :
        \A i \in 1..Len(paths) :
            RereadEqual(Store, disk, paths[i], check)
            => LET R == IloadPaths(Store, disk, paths, check, FALSE, FALSE,
                                   "detect")
                   f == FileIdOf(Store, paths[i])
               IN /\ paths[i] \notin R.digs
                  /\ f \in DOMAIN R.D.files
                  /\ R.D.files[f] = files[f]
                  /\ FileRows(R.D.nuts, f) = FileRows(nuts, f)
                  /\ \A s \in Squirrels :
                        FileRows(R.D.sq_nuts[s], f) = FileRows(sq_nuts[s], f)

\* an indexed file with nuts in a projection has a later mtime on disk, and
\* an iload with check=False reads from it the nuts the index holds
C32_Witness ==
    \E p \in Paths :
        /\ RereadEqual(Store, disk, p, FALSE)
        /\ FileRows(sq_nuts[1], FileIdOf(Store, p)) # {}
        /\ files[FileIdOf(Store, p)].mtime # get_stats(disk, p)[1]
        /\ p \in IloadPaths(Store, disk, <<p>>, FALSE, FALSE, FALSE,
                            "detect").loads


\* the nuts a segment-restricted iload of p reads differ from the cached
\* ones of the segment
SegmentDiffers(D, dk, p, segment, check) ==
    LET T == ReadStage(
                FormatStage(
                    CachedStage(
                        SegmentFilter(
                            CheckStage(dk, p,
                                IF FileIdOf(D, p) = NULL THEN <<>>
                                ELSE GroupNuts(D, FileIdOf(D, p)), check),
                            segment),
                        FALSE),
                    dk, p, "detect"),
                dk, p)
    IN T.exc = "none" /\ T.loads = {p} /\ NutsDiffer(T.nuts, T.old_nuts)

\* C33: segment-restricted ingest persists the whole file: when
\* iload(path, segment, database) reads nuts that differ from the cached
\* ones, the index afterwards holds all nuts the backend yields for the
\* file, with the file's format, mtime and size.
C33_SegmentIngest ==
    \A p \in Paths, segment \in SegmentArgs, check \in BOOLEAN :
        SegmentDiffers(Store, disk, p, segment, check)
        => LET R == IloadSegment(Store, disk, p, segment, check)
           IN /\ R.exc = "none"
              /\ IndexIsCurrent(R.D, disk, p)
              /\ Indexed(R.D, p)
              /\ StoredStats(R.D, p) = get_stats(disk, p)
              /\ R.D.files[FileIdOf(R.D, p)].format = detect_format(disk, p)


\* C34: intervals with missing ends are not stored: every row of the
\* global nuts table and of every projection has a tmin_seconds and a
\* tmax_seconds that are not NULL, whatever the backends yield.
C34_BothEndpoints ==
    /\ \A r \in nuts : r.tmin_seconds # NULL /\ r.tmax_seconds # NULL
    /\ \A s \in Squirrels :
          \A r \in sq_nuts[s] : r.tmin_seconds # NULL /\ r.tmax_seconds # NULL


\* C35: Database.undig_all() yields exactly one (path, nuts) group per file
\* that has nuts, each group holding all nuts of its file, in whatever
\* order the store returns the joined rows.
C35_UndigAll ==
    \A rows \in Enumerations(nuts) :
        LET G == Database_undig_all(Store, rows)
        IN /\ \A i, j \in 1..Len(G) : i # j => G[i][1] # G[j][1]
           /\ {G[i][1] : i \in 1..Len(G)}
                 = {files[r.file_id].path : r \in nuts}
           /\ \A i \in 1..Len(G) :
                 Len(G[i][2]) =
                    Cardinality(FileRows(nuts, FileIdOf(Store, G[i][1])))

\* the same for the rows in rowid order of the nuts table, the order of
\* the scan SQLite makes for this SELECT
C35_UndigAllByNutId ==
    LET G == Database_undig_all(Store, RowsByNutId(nuts))
    IN \A i, j \in 1..Len(G) : i # j => G[i][1] # G[j][1]


\* C36: two Squirrels on one database that both contain the file f: after
\* any interleaving of modifications of f on disk and add([f], check=True)
\* calls, when add([f], check=True) of a Squirrel returns, its projection
\* holds for f exactly the nuts the global index holds for f.
C36_ProjectionConsistency ==
    \A s \in Squirrels, p \in Paths :
        (\A t \in Squirrels : InSelection(Store, t, p))
        => LET R == Squirrel_add(Store, disk, s, <<p>>, {}, "detect", TRUE)
           IN R.exc = "none"
              => FileRows(R.D.sq_nuts[s], FileIdOf(R.D, p))
                    = FileRows(R.D.nuts, FileIdOf(R.D, p))


\* C37: between public operations each Squirrel's projection is a subset
\* of the global index: every projected row is a row of the global nuts
\* table, column by column, and its file_id is in the Squirrel's file-state
\* table.
C37_ProjectionSubset ==
    \A s \in Squirrels :
        \A r \in sq_nuts[s] :
            /\ r \in nuts
            /\ r.file_id \in DOMAIN file_states[s]

\* a file of both Squirrels has been indexed anew: one Squirrel projects
\* its new nuts, the other one has lost those it had
C37_Witness ==
    \E s \in Squirrels, t \in Squirrels :
        /\ sq_nuts[s] # {}
        /\ sq_nuts[t] = {}
        /\ DOMAIN file_states[t] # {}
        /\ \E r \in sq_nuts[s] : r.nut_id > 1 /\ r.file_id \in DOMAIN file_states[t]


\* the connection had no Squirrel been destroyed on it
NoneDropped(c) == [c EXCEPT !.dropped = {}]

\* C38: after a transient Squirrel has been destroyed, every operation on
\* the same handle that updates or deletes a files row (dig of a known
\* path, reset, remove, add on another Squirrel) succeeds and does what it
\* would do had the destroyed Squirrel never existed.
C38_UsableAfterDestroy ==
    conn.dropped # {} =>
        \A p \in Shared :
            /\ Connection_reset(conn, Store, p)
                  = Connection_reset(NoneDropped(conn), Store, p)
            /\ Connection_remove(conn, Store, p)
                  = Connection_remove(NoneDropped(conn), Store, p)
            /\ disk[p].what = "ok" =>
                  \A forder \in Enumerations(DigFileSet(LoadedNuts(p))),
                     korder \in Enumerations(DigKindCodesSet(LoadedNuts(p))) :
                     Connection_dig(conn, Store, LoadedNuts(p), forder,
                                    korder)
                        = Connection_dig(NoneDropped(conn), Store,
                                         LoadedNuts(p), forder, korder)
            /\ \A s \in Squirrels \ conn.dropped, check \in BOOLEAN :
                  Connection_add(conn, Store, disk, s, <<p>>, check)
                     = Connection_add(NoneDropped(conn), Store, disk, s,
                                      <<p>>, check)


\* C39: every row of a selection's file-state table refers to an existing
\* files row, and to the path it was added for: Database.remove(path)
\* followed by the insertion of other files leaves no state row that
\* refers to a missing file or to a different file.
C39_StateRowsRefer ==
    /\ \A s \in Selections : DOMAIN file_states[s] \subseteq DOMAIN files
    /\ \A s \in Selections, p \in Paths, q \in Paths :
          LET E == Selection_add(Database_remove(Store, p), EmptyFn, <<q>>,
                                 1).D
          IN /\ DOMAIN E.file_states[s] \subseteq DOMAIN E.files
             /\ SelectedPaths(E, s) \subseteq SelectedPaths(Store, s)


\* the nuts of the call are for the one path, with keys pairwise distinct,
\* none of them a key of the nuts dat holds for the path, and all keys,
\* old and new, comparable in the sort
FreshKeys(dat, nutlist, path) ==
    /\ CallPaths(nutlist) = {path}
    /\ \A i \in 1..Len(nutlist) :
          /\ dat[path][VKey(nutlist[i])] = 0
          /\ \A j \in 1..Len(nutlist) :
                j # i => VKey(nutlist[j]) # VKey(nutlist[i])
    /\ ~ SortRaises(AppendNuts(dat, nutlist), path)

\* C40: under any sequence of add_nuts calls of the virtual backend, each
\* path's stored nuts have pairwise distinct (file_segment, file_element);
\* a call that raises UniqueKeyRequired leaves the stored nuts and the
\* mtimes as they were, so that a later add_nuts with fresh keys for the
\* same path succeeds; and every successful add_nuts changes the mtime
\* get_stats reports for each path of the call.
C40_VirtualStoreConsistent ==
    /\ \A p \in Paths, k \in VKeys : data[p][k] <= 1
    /\ \A nutlist \in VCalls :
          \A order \in Enumerations(CallPaths(nutlist)) :
              LET r == add_nuts(data, data_mtimes, nutlist, order)
              IN /\ r.exc = "UniqueKeyRequired" =>
                       /\ r.data = data
                       /\ r.data_mtimes = data_mtimes
                       /\ \A p \in CallPaths(nutlist), later \in VCalls :
                             FreshKeys(data, later, p) =>
                                 add_nuts(r.data, r.data_mtimes, later,
                                          <<p>>).exc = "none"
                 /\ r.exc = "none" =>
                       \A p \in CallPaths(nutlist) :
                           r.data_mtimes[p] # data_mtimes[p]

=============================================================================
